---------------------------- MODULE Spec2Model ----------------------------
(***************************************************************************)
(* Enemy AI, navigation, sound alerting and door control of the            *)
(* Wolfenstein-3D-style game in src/src/main.js.                           *)
(*                                                                         *)
(* Fixed point: lengths are in 1/1000 world unit, times in milliseconds,   *)
(* a door's openAmount in 1/1000 of full travel, Math.random() in 1/1000.  *)
(* Levels are single-story (levelIsMultiStory = false) and solid wall      *)
(* outside the region their wall rows describe.                            *)
(***************************************************************************)
EXTENDS Integers, Sequences, FiniteSets, TLC

\* ------------------------------------------------------------------------
\* Game constants
\* ------------------------------------------------------------------------
MAP_SIZE == 64
CELL == 2000
DOOR_PASSABLE_OPEN == 800
MAX_HEALTH == 100
MAX_AMMO == 99
START_AMMO == 8
CLIP_AMMO == 4
PICKUP_RADIUS == 1600

AI == [STAND |-> 0, PATROL |-> 1, ALERT |-> 2, CHASE |-> 3, ATTACK |-> 4,
       PAIN |-> 5, DYING |-> 6, DEAD |-> 7, DOOR_WAIT |-> 8, DODGE |-> 9,
       INVESTIGATE |-> 10]

\* speed is in 1/10 world unit per second, distances in 1/1000 world unit,
\* cooldown in ms.
ENEMY_TYPES ==
  [guard   |-> [hp |-> 25,  speed |-> 22, dmg |-> <<5, 10>>,  score |-> 100,
                alertDist |-> 13000, shootDist |-> 12000, cooldown |-> <<900, 1500>>,
                melee |-> FALSE, silent |-> FALSE, noPain |-> FALSE,
                dodges |-> FALSE, rushes |-> FALSE, canOpenDoors |-> TRUE],
   officer |-> [hp |-> 50,  speed |-> 34, dmg |-> <<8, 15>>,  score |-> 400,
                alertDist |-> 18000, shootDist |-> 14000, cooldown |-> <<600, 1100>>,
                melee |-> FALSE, silent |-> FALSE, noPain |-> FALSE,
                dodges |-> TRUE, rushes |-> FALSE, canOpenDoors |-> TRUE],
   ss      |-> [hp |-> 100, speed |-> 29, dmg |-> <<10, 20>>, score |-> 500,
                alertDist |-> 20000, shootDist |-> 16000, cooldown |-> <<450, 850>>,
                melee |-> FALSE, silent |-> FALSE, noPain |-> FALSE,
                dodges |-> TRUE, rushes |-> FALSE, canOpenDoors |-> TRUE],
   dog     |-> [hp |-> 1,   speed |-> 52, dmg |-> <<5, 12>>,  score |-> 200,
                alertDist |-> 15000, shootDist |-> 2400, cooldown |-> <<450, 800>>,
                melee |-> TRUE, silent |-> FALSE, noPain |-> FALSE,
                dodges |-> FALSE, rushes |-> TRUE, canOpenDoors |-> FALSE],
   mutant  |-> [hp |-> 55,  speed |-> 28, dmg |-> <<8, 18>>,  score |-> 700,
                alertDist |-> 16000, shootDist |-> 12000, cooldown |-> <<200, 400>>,
                melee |-> FALSE, silent |-> TRUE, noPain |-> FALSE,
                dodges |-> FALSE, rushes |-> FALSE, canOpenDoors |-> TRUE],
   boss    |-> [hp |-> 850, speed |-> 17, dmg |-> <<15, 30>>, score |-> 5000,
                alertDist |-> 24000, shootDist |-> 19000, cooldown |-> <<300, 600>>,
                melee |-> FALSE, silent |-> FALSE, noPain |-> TRUE,
                dodges |-> FALSE, rushes |-> FALSE, canOpenDoors |-> TRUE]]

\* dogDeathFrames has 4 entries, guardDeathFrames (every other type) 5.
getEnemyDeathFrames(e) == IF e.enemyType = "dog" THEN 4 ELSE 5

\* ------------------------------------------------------------------------
\* Arithmetic helpers
\* ------------------------------------------------------------------------
Abs(a) == IF a < 0 THEN -a ELSE a
Min(a, b) == IF a < b THEN a ELSE b
Max(a, b) == IF a > b THEN a ELSE b

\* Math.floor(w / CELL)
Cell(w) == w \div CELL

RECURSIVE NewtonSqrt(_, _)
NewtonSqrt(n, x) ==
  LET y == (x + (n \div x)) \div 2
  IN  IF y >= x THEN x ELSE NewtonSqrt(n, y)

\* floor(Math.sqrt(n))
ISqrt(n) == IF n < 2 THEN n ELSE NewtonSqrt(n, n)

\* Math.sqrt(dx*dx + dz*dz), rounded down
Dist(dx, dz) == ISqrt(dx * dx + dz * dz)

\* a * b / c with c > 0, rounded toward zero
MulDiv(a, b, c) ==
  IF a * b >= 0 THEN (a * b) \div c ELSE -((-(a * b)) \div c)

\* a + Math.random() * (b - a), the draw r in 1/1000
Lerp(a, b, r) == a + ((b - a) * r) \div 1000

\* ------------------------------------------------------------------------
\* World grid, doors, collision and line of sight
\* ------------------------------------------------------------------------
InGrid(gx, gz) == gx >= 0 /\ gx < MAP_SIZE /\ gz >= 0 /\ gz < MAP_SIZE

\* levelWalls[gz * MAP_SIZE + gx]; walls maps the indices of the level's
\* region, every other cell of the grid is solid.
WallAt(walls, gx, gz) ==
  LET idx == gz * MAP_SIZE + gx
  IN  IF idx \in DOMAIN walls THEN walls[idx] ELSE 1

\* levelDoors.find(d => d.gridX === gx && d.gridY === gz): index or 0
FindDoor(doors, gx, gz) ==
  LET S == {i \in DOMAIN doors : doors[i].gridX = gx /\ doors[i].gridY = gz}
  IN  IF S = {} THEN 0 ELSE CHOOSE i \in S : \A j \in S : i <= j

getDoorAt(walls, doors, gx, gz) ==
  IF ~InGrid(gx, gz) THEN 0
  ELSE IF WallAt(walls, gx, gz) # -1 THEN 0
  ELSE FindDoor(doors, gx, gz)

\* A variant of the statics loop with a collision radius of 1.1
StaticBlocks_Wide(statics, wx, wz) ==
  \E i \in DOMAIN statics :
     /\ statics[i].blocking
     /\ (wx - statics[i].x) * (wx - statics[i].x)
          + (wz - statics[i].z) * (wz - statics[i].z) < 1210000

StaticBlocks(statics, wx, wz) ==
  \E i \in DOMAIN statics :
     /\ statics[i].blocking
     /\ (wx - statics[i].x) * (wx - statics[i].x)
          + (wz - statics[i].z) * (wz - statics[i].z) < 360000

\* A variant of isBlocked that lets a door cell pass by the door's open flag
\* instead of its openAmount
isBlocked_ByOpenFlag(walls, doors, statics, wx, wz) ==
  LET gx == Cell(wx)
      gz == Cell(wz)
      w  == WallAt(walls, gx, gz)
      d  == FindDoor(doors, gx, gz)
  IN  IF ~InGrid(gx, gz) THEN TRUE
      ELSE IF w > 0 THEN TRUE
      ELSE IF w = -1 THEN ~(d # 0 /\ doors[d].open)
      ELSE StaticBlocks(statics, wx, wz)

isBlocked(walls, doors, statics, wx, wz) ==
  LET gx == Cell(wx)
      gz == Cell(wz)
      w  == WallAt(walls, gx, gz)
      d  == FindDoor(doors, gx, gz)
  IN  IF ~InGrid(gx, gz) THEN TRUE
      ELSE IF w > 0 THEN TRUE
      ELSE IF w = -1
           THEN ~(d # 0 /\ doors[d].openAmount >= DOOR_PASSABLE_OPEN)
      ELSE StaticBlocks(statics, wx, wz)

\* Multi-story levels: the second floor's height and the highest step an
\* entity climbs without stairs (1/1000 unit)
FLOOR_1_Y == 2000
MAX_STEP_UP == 550

isOnSecondFloor(floorY) == floorY >= FLOOR_1_Y - 300

\* isBlockedMultiStory(wx, wz, entityFloorY). ms holds the multi-story data
\* the function reads: floorY is entityFloorY, and for the cell of (wx, wz)
\* cellCeil is levelCeilingH, upperWall is levelUpperWalls and targetFloor is
\* levelFloorH
isBlockedMultiStory(walls, doors, statics, wx, wz, ms) ==
  LET gx == Cell(wx)
      gz == Cell(wz)
      w  == WallAt(walls, gx, gz)
      d  == FindDoor(doors, gx, gz)
  IN  IF ~InGrid(gx, gz) THEN TRUE
      ELSE IF w > 0
           THEN ~(isOnSecondFloor(ms.floorY) /\ ms.cellCeil <= FLOOR_1_Y)
      ELSE IF w = -1
           THEN ~(d # 0 /\ doors[d].openAmount >= DOOR_PASSABLE_OPEN)
      ELSE IF isOnSecondFloor(ms.floorY) /\ ms.upperWall > 0 THEN TRUE
      ELSE IF ms.targetFloor - ms.floorY > MAX_STEP_UP THEN TRUE
      ELSE StaticBlocks(statics, wx, wz)

\* ms of a level without floorHeights (levelIsMultiStory false)
NoStory == [multi |-> FALSE]

\* isBlocked(wx, wz) with its delegation: on a multi-story level the answer
\* is isBlockedMultiStory's for the player's floor height
isBlockedLevel(ms, walls, doors, statics, wx, wz) ==
  IF ms.multi THEN isBlockedMultiStory(walls, doors, statics, wx, wz, ms)
  ELSE isBlocked(walls, doors, statics, wx, wz)

isTileBlocked(walls, gx, gz) ==
  IF ~InGrid(gx, gz) THEN TRUE ELSE WallAt(walls, gx, gz) > 0

\* Math.max(2, Math.ceil(dist / 0.4)): the least n with n * 400 >= dist
LosSteps(dx, dz) ==
  LET d2 == dx * dx + dz * dz
      n0 == ISqrt(d2) \div 400
      n  == IF (n0 * 400) * (n0 * 400) >= d2 THEN n0 ELSE n0 + 1
  IN  Max(2, n)

\* A variant of the sample test that lets a door cell pass by the door's open
\* flag instead of its openAmount
LosSampleBlocks_ByOpenFlag(walls, doors, x1, z1, x2, z2, steps, i) ==
  LET gx == Cell(x1 + ((x2 - x1) * i) \div steps)
      gz == Cell(z1 + ((z2 - z1) * i) \div steps)
      w  == WallAt(walls, gx, gz)
      d  == FindDoor(doors, gx, gz)
  IN  IF gx = Cell(x1) /\ gz = Cell(z1) THEN FALSE
      ELSE IF gx = Cell(x2) /\ gz = Cell(z2) THEN FALSE
      ELSE IF ~InGrid(gx, gz) THEN TRUE
      ELSE IF w > 0 THEN TRUE
      ELSE IF w = -1 THEN (d = 0 \/ ~doors[d].open)
      ELSE FALSE

\* One sample of hasLineOfSight's loop: TRUE when it makes the loop return false
LosSampleBlocks(walls, doors, x1, z1, x2, z2, steps, i) ==
  LET cx == x1 + ((x2 - x1) * i) \div steps
      cz == z1 + ((z2 - z1) * i) \div steps
      gx == Cell(cx)
      gz == Cell(cz)
      w  == WallAt(walls, gx, gz)
      d  == FindDoor(doors, gx, gz)
  IN  IF gx = Cell(x1) /\ gz = Cell(z1) THEN FALSE
      ELSE IF gx = Cell(x2) /\ gz = Cell(z2) THEN FALSE
      ELSE IF ~InGrid(gx, gz) THEN TRUE
      ELSE IF w > 0 THEN TRUE
      ELSE IF w = -1 THEN (d = 0 \/ doors[d].openAmount < DOOR_PASSABLE_OPEN)
      ELSE FALSE

hasLineOfSight(walls, doors, x1, z1, x2, z2) ==
  LET dx == x2 - x1
      dz == z2 - z1
      steps == LosSteps(dx, dz)
  IN  IF dx * dx + dz * dz < 100 * 100 THEN TRUE
      ELSE \A i \in 1..(steps - 1) :
              ~LosSampleBlocks(walls, doors, x1, z1, x2, z2, steps, i)

\* ------------------------------------------------------------------------
\* A* pathfinding
\* ------------------------------------------------------------------------
MaxSteps == 200

Key(x, z) == x * MAP_SIZE + z

\* 4-directional neighbours, in the order the loops visit them
Dirs == << <<1, 0>>, <<-1, 0>>, <<0, 1>>, <<0, -1>> >>

\* A variant of the scan that takes the entry pushed last, whatever its f
BestIdx_Newest(open) == Len(open)

\* The linear scan for the lowest f: the first entry holding the minimum
BestIdx(open) ==
  CHOOSE i \in 1..Len(open) :
     /\ \A j \in 1..Len(open) : open[i].f <= open[j].f
     /\ \A j \in 1..(i - 1) : open[j].f > open[i].f

RemoveAt(s, i) == SubSeq(s, 1, i - 1) \o SubSeq(s, i + 1, Len(s))

\* A variant of the move cost without the extra cost of a closed door
MoveCost_Flat(walls, doors, nx, nz) == 1

\* A variant of the move cost that goes by the door's openAmount
MoveCost_ByOpenAmount(walls, doors, nx, nz) ==
  LET d == getDoorAt(walls, doors, nx, nz)
  IN  IF d # 0 /\ doors[d].openAmount < DOOR_PASSABLE_OPEN THEN 3 ELSE 1

\* doorAt && !doorAt.userData.open ? 3 : 1
MoveCost(walls, doors, nx, nz) ==
  LET d == getDoorAt(walls, doors, nx, nz)
  IN  IF d # 0 /\ ~doors[d].open THEN 3 ELSE 1

\* The body of the neighbour loop for directions k..4
RECURSIVE Relax(_, _, _, _, _, _, _)
Relax(walls, doors, st, cur, gx, gz, k) ==
  IF k > 4 THEN st
  ELSE
    LET nx == cur.x + Dirs[k][1]
        nz == cur.z + Dirs[k][2]
        nKey == Key(nx, nz)
        curKey == Key(cur.x, cur.z)
        curG == IF curKey \in DOMAIN st.gScore THEN st.gScore[curKey] ELSE 0
        tentG == curG + MoveCost(walls, doors, nx, nz)
        h == Abs(gx - nx) + Abs(gz - nz)
    IN  IF isTileBlocked(walls, nx, nz)
        THEN Relax(walls, doors, st, cur, gx, gz, k + 1)
        ELSE IF nKey \notin DOMAIN st.gScore \/ tentG < st.gScore[nKey]
        THEN Relax(walls, doors,
                   [open     |-> Append(st.open, [x |-> nx, z |-> nz, f |-> tentG + h]),
                    gScore   |-> (nKey :> tentG) @@ st.gScore,
                    cameFrom |-> (nKey :> curKey) @@ st.cameFrom],
                   cur, gx, gz, k + 1)
        ELSE Relax(walls, doors, st, cur, gx, gz, k + 1)

\* The cell n links up the cameFrom chain from k: k = cameFrom.get(k), n
\* times or until cameFrom has no entry for k
RECURSIVE Ancestor(_, _, _)
Ancestor(cameFrom, k, n) ==
  IF n = 0 \/ k \notin DOMAIN cameFrom THEN k
  ELSE IF n = 1 THEN cameFrom[k]
  ELSE Ancestor(cameFrom, Ancestor(cameFrom, k, n \div 2), n - n \div 2)

\* Reconstruct the path: walk cameFrom back from k, unshifting each cell,
\* while cameFrom has an entry for k
Reconstruct(cameFrom, k) ==
  LET len == Cardinality({n \in 1..Cardinality(DOMAIN cameFrom) :
                            Ancestor(cameFrom, k, n - 1) \in DOMAIN cameFrom})
  IN  [i \in 1..len |->
         LET c == Ancestor(cameFrom, k, len - i)
         IN  [x |-> c \div MAP_SIZE, z |-> c % MAP_SIZE]]

\* One iteration of findPath's main loop. r holds the search state st (open,
\* gScore, cameFrom), the iterations run (steps) and, once the loop has ended
\* (done), the result: the path (<<>> for null), whether the goal was popped
\* (reached) and the goal's gScore (cost, 0 without a path).
AStarStep(walls, doors, r, gx, gz) ==
  IF r.done THEN r
  ELSE IF Len(r.st.open) = 0 \/ r.steps >= MaxSteps
  THEN [r EXCEPT !.done = TRUE]
  ELSE
    LET bestIdx == BestIdx(r.st.open)
        cur == r.st.open[bestIdx]
        st1 == [r.st EXCEPT !.open = RemoveAt(r.st.open, bestIdx)]
    IN  IF cur.x = gx /\ cur.z = gz
        THEN [r EXCEPT !.done = TRUE, !.reached = TRUE, !.steps = @ + 1,
                       !.path = Reconstruct(r.st.cameFrom, Key(cur.x, cur.z)),
                       !.cost = r.st.gScore[Key(cur.x, cur.z)]]
        ELSE [r EXCEPT !.st = Relax(walls, doors, st1, cur, gx, gz, 1),
                       !.steps = @ + 1]

\* n iterations of the main loop, or fewer if the loop ends before
RECURSIVE AStar(_, _, _, _, _, _)
AStar(walls, doors, r, gx, gz, n) ==
  IF n = 0 \/ r.done THEN r
  ELSE IF n = 1 THEN AStarStep(walls, doors, r, gx, gz)
  ELSE AStar(walls, doors, AStar(walls, doors, r, gx, gz, n \div 2),
             gx, gz, n - n \div 2)

\* findPath on a cache miss: the loop run to its end
SearchPath(walls, doors, sx, sz, gx, gz) ==
  AStar(walls, doors,
        [st |-> [open     |-> <<[x |-> sx, z |-> sz,
                                 f |-> Abs(gx - sx) + Abs(gz - sz)]>>,
                 gScore   |-> (Key(sx, sz) :> 0),
                 cameFrom |-> <<>>],
         steps |-> 0, done |-> FALSE, path |-> <<>>, reached |-> FALSE,
         cost |-> 0],
        gx, gz, MaxSteps + 1)

\* The result res of a search stored in the cache under cacheKey
StorePath(cache, cacheKey, res) ==
  [path |-> res.path, cache |-> (cacheKey :> res.path) @@ cache,
   key |-> cacheKey, searched |-> TRUE, steps |-> res.steps, cost |-> res.cost]

\* A variant of findPath that searches on every call and overwrites what
\* the cache holds
findPath_Fresh(walls, doors, cache, startX, startZ, goalX, goalZ) ==
  LET sx == Cell(startX)
      sz == Cell(startZ)
      gx == Cell(goalX)
      gz == Cell(goalZ)
  IN  IF sx = gx /\ sz = gz
      THEN [path |-> <<>>, cache |-> cache, key |-> <<sx, sz, gx, gz>>,
            searched |-> FALSE, steps |-> 0, cost |-> 0]
      ELSE StorePath(cache, <<sx, sz, gx, gz>>,
                     SearchPath(walls, doors, sx, sz, gx, gz))

\* findPath(startX, startZ, goalX, goalZ): the result and the cache after the
\* call. The cache maps <<sx, sz, gx, gz>> to a stored path, <<>> for null.
\* The result also tells whether the search ran (searched), how many nodes
\* it expanded (steps) and the gScore of the goal (cost).
findPath(walls, doors, cache, startX, startZ, goalX, goalZ) ==
  LET sx == Cell(startX)
      sz == Cell(startZ)
      gx == Cell(goalX)
      gz == Cell(goalZ)
  IN  IF sx = gx /\ sz = gz
      THEN [path |-> <<>>, cache |-> cache, key |-> <<sx, sz, gx, gz>>,
            searched |-> FALSE, steps |-> 0, cost |-> 0]
      ELSE IF <<sx, sz, gx, gz>> \in DOMAIN cache
           THEN [path |-> cache[<<sx, sz, gx, gz>>], cache |-> cache,
                 key |-> <<sx, sz, gx, gz>>,
                 searched |-> FALSE, steps |-> 0, cost |-> 0]
      ELSE StorePath(cache, <<sx, sz, gx, gz>>,
                     SearchPath(walls, doors, sx, sz, gx, gz))

\* ------------------------------------------------------------------------
\* Sound propagation
\* ------------------------------------------------------------------------
\* A variant of maxFlood that allows one hop more
MaxFlood_OneMore(radius) == radius \div CELL + 1

\* Math.ceil(radius / CELL)
MaxFlood(radius) == (radius + CELL - 1) \div CELL

\* A variant of the neighbour loop that lets sound through a door cell only
\* from DOOR_PASSABLE_OPEN on
RECURSIVE FloodNeighbours_PassableOnly(_, _, _, _, _, _, _)
FloodNeighbours_PassableOnly(walls, doors, st, x, z, dist, k) ==
  IF k > 4 THEN st
  ELSE
    LET nx == x + Dirs[k][1]
        nz == z + Dirs[k][2]
        nk == nx * MAP_SIZE + nz
        w  == WallAt(walls, nx, nz)
        d  == getDoorAt(walls, doors, nx, nz)
        st1 == [st EXCEPT !.visited = @ \cup {nk}]
    IN  IF nk \in st.visited
        THEN FloodNeighbours_PassableOnly(walls, doors, st, x, z, dist, k + 1)
        ELSE IF ~InGrid(nx, nz) \/ w > 0
                \/ (w = -1 /\ d # 0 /\ doors[d].openAmount < DOOR_PASSABLE_OPEN)
        THEN FloodNeighbours_PassableOnly(walls, doors, st1, x, z, dist, k + 1)
        ELSE FloodNeighbours_PassableOnly(walls, doors,
               [st1 EXCEPT !.queue = Append(@, [x |-> nx, z |-> nz, dist |-> dist + 1])],
               x, z, dist, k + 1)

\* The neighbour loop of the flood fill for directions k..4
RECURSIVE FloodNeighbours(_, _, _, _, _, _, _)
FloodNeighbours(walls, doors, st, x, z, dist, k) ==
  IF k > 4 THEN st
  ELSE
    LET nx == x + Dirs[k][1]
        nz == z + Dirs[k][2]
        nk == nx * MAP_SIZE + nz
        w  == WallAt(walls, nx, nz)
        d  == getDoorAt(walls, doors, nx, nz)
        st1 == [st EXCEPT !.visited = @ \cup {nk}]
    IN  IF nk \in st.visited
        THEN FloodNeighbours(walls, doors, st, x, z, dist, k + 1)
        ELSE IF ~InGrid(nx, nz) \/ w > 0
                \/ (w = -1 /\ d # 0 /\ doors[d].openAmount < 300)
        THEN FloodNeighbours(walls, doors, st1, x, z, dist, k + 1)
        ELSE FloodNeighbours(walls, doors,
               [st1 EXCEPT !.queue = Append(@, [x |-> nx, z |-> nz, dist |-> dist + 1])],
               x, z, dist, k + 1)

\* The BFS loop of alertEnemiesBySound
RECURSIVE Flood(_, _, _, _)
Flood(walls, doors, st, maxFlood) ==
  IF Len(st.queue) = 0 THEN st.alertedCells
  ELSE
    LET c == Head(st.queue)
        st1 == [st EXCEPT !.queue = Tail(@),
                          !.alertedCells = @ \cup {c.x * MAP_SIZE + c.z}]
    IN  IF c.dist >= maxFlood
        THEN Flood(walls, doors, st1, maxFlood)
        ELSE Flood(walls, doors,
                   FloodNeighbours(walls, doors, st1, c.x, c.z, c.dist, 1),
                   maxFlood)

\* The set of flooded cell keys of a sound at (sourceX, sourceZ)
alertedCells(walls, doors, sourceX, sourceZ, radius) ==
  LET sgx == Cell(sourceX)
      sgz == Cell(sourceZ)
  IN  Flood(walls, doors,
            [queue        |-> <<[x |-> sgx, z |-> sgz, dist |-> 0]>>,
             visited      |-> {sgx * MAP_SIZE + sgz},
             alertedCells |-> {}],
            MaxFlood(radius))

\* ------------------------------------------------------------------------
\* Level data and level loading
\* ------------------------------------------------------------------------
\* LEVELS: each level gives its wall rows (row gz + 1, column gx + 1), door,
\* enemy and static placements and the player's spawn cell and angle.
\* Levels 1 to 3: a corridor, the player at one end facing a guard, a dog or
\* an officer at the other end.
\* Level 4: the player and a guard on the two sides of a normal door, with a
\* passage around the door.
\* Level 5: a corridor closed by a normal door, the player next to the door
\* and a guard two cells behind it.
Corridor(type) ==
  [walls   |-> << <<1, 1, 1, 1, 1>>,
                  <<1, 0, 0, 0, 1>>,
                  <<1, 1, 1, 1, 1>> >>,
   doors   |-> << >>,
   enemies |-> << [x |-> 3, y |-> 1, type |-> type, patrol |-> FALSE, dir |-> 3] >>,
   statics |-> << >>,
   spawnX |-> 1, spawnY |-> 1, spawnAngle |-> 0]

LEVELS ==
  << Corridor("guard"), Corridor("dog"), Corridor("officer"),
     [walls   |-> << <<1, 1, 1, 1, 1>>,
                     <<1, 0, 0, 0, 1>>,
                     <<1, 0, 0, 0, 1>>,
                     <<1, 1, 1, 1, 1>> >>,
      doors   |-> << [x |-> 2, y |-> 1, type |-> "normal"] >>,
      enemies |-> << [x |-> 3, y |-> 1, type |-> "guard", patrol |-> FALSE, dir |-> 3] >>,
      statics |-> << >>,
      spawnX |-> 1, spawnY |-> 1, spawnAngle |-> 0],
     [walls   |-> << <<1, 1, 1, 1, 1, 1, 1>>,
                     <<1, 0, 0, 0, 0, 0, 1>>,
                     <<1, 1, 1, 1, 1, 1, 1>> >>,
      doors   |-> << [x |-> 3, y |-> 1, type |-> "normal"] >>,
      enemies |-> << [x |-> 5, y |-> 1, type |-> "guard", patrol |-> FALSE, dir |-> 3] >>,
      statics |-> << >>,
      spawnX |-> 2, spawnY |-> 1, spawnAngle |-> 0] >>

\* A family of levels in the same format: a room of 3 x 3 cells inside a
\* wall border, the player in the corner (1, 1), a guard in the opposite
\* corner (3, 3) facing away, and each of the other seven cells, by the
\* digits of m to the base 4, open (0), a solid wall (1), a normal door (2)
\* or a normal door that stands open (3)
MazeFree == << <<2, 1>>, <<3, 1>>, <<1, 2>>, <<2, 2>>, <<3, 2>>, <<1, 3>>, <<2, 3>> >>

MazeDigit(m, n) ==
  LET p4 == <<1, 4, 16, 64, 256, 1024, 4096>>
  IN  (m \div p4[n]) % 4

MazeWall(m, gx, gz) ==
  IF gx \in {0, 4} \/ gz \in {0, 4} THEN 1
  ELSE IF \E n \in DOMAIN MazeFree :
            MazeFree[n] = <<gx, gz>> /\ MazeDigit(m, n) = 1
       THEN 1 ELSE 0

RECURSIVE MazeDoors(_, _)
MazeDoors(m, n) ==
  IF n > Len(MazeFree) THEN << >>
  ELSE IF MazeDigit(m, n) \in {2, 3}
       THEN << [x |-> MazeFree[n][1], y |-> MazeFree[n][2], type |-> "normal",
                startOpen |-> MazeDigit(m, n) = 3] >> \o MazeDoors(m, n + 1)
       ELSE MazeDoors(m, n + 1)

Maze(m) ==
  [walls   |-> [gz \in 1..5 |-> [gx \in 1..5 |-> MazeWall(m, gx - 1, gz - 1)]],
   doors   |-> MazeDoors(m, 1),
   enemies |-> << [x |-> 3, y |-> 3, type |-> "guard", patrol |-> FALSE, dir |-> 3] >>,
   statics |-> << >>,
   spawnX |-> 1, spawnY |-> 1, spawnAngle |-> 0]

\* A family of levels in the same format: the room of 3 x 3 cells with the
\* player in (1, 1) and the guard in (3, 3), in which each of the cells
\* (2, 1), (1, 2) and (2, 2) is, by the digits of m to the base 6, open (0), a
\* solid wall (1), or holds a green barrel (2), a puddle (3), an ammo clip
\* (4) or the exit marker (5)
PropRoom(m) ==
  LET cells == << <<2, 1>>, <<1, 2>>, <<2, 2>> >>
      digit(n) == (m \div <<1, 6, 36>>[n]) % 6
      static(n) == [x |-> cells[n][1], y |-> cells[n][2], exit |-> digit(n) = 5,
                    type |-> <<0, 0, 1, 0, 26, 0>>[digit(n) + 1], digit |-> digit(n)]
      isStatic(st) == st.digit >= 2
  IN  [walls   |-> [gz \in 1..5 |-> [gx \in 1..5 |->
                      IF gx \in {1, 5} \/ gz \in {1, 5} THEN 1
                      ELSE IF \E n \in 1..3 : /\ cells[n] = <<gx - 1, gz - 1>>
                                               /\ digit(n) = 1
                      THEN 1 ELSE 0]],
       doors   |-> << >>,
       enemies |-> << [x |-> 3, y |-> 3, type |-> "guard", patrol |-> FALSE, dir |-> 3] >>,
       statics |-> SelectSeq([n \in 1..3 |-> static(n)], isStatic),
       spawnX |-> 1, spawnY |-> 1, spawnAngle |-> 0]

\* The door level with a door of the given type and, in the cell (1, 2)
\* beside the player, the pickup of static type keyStat (20: key1, 21: key2)
LockedRoom(type, keyStat) ==
  [LEVELS[4] EXCEPT !.doors = << [x |-> 2, y |-> 1, type |-> type] >>,
                    !.statics = << [x |-> 1, y |-> 2, exit |-> FALSE,
                                    type |-> keyStat] >>]

\* A level in the same format: one corridor, a cell wide, that winds through
\* nine rows of 22 cells joined at alternating ends, 206 cells from the
\* guard's end (1, 1) to the player's end (22, 17)
Serpent ==
  [walls   |-> [z \in 1..19 |-> [x \in 1..24 |->
                  IF x \in {1, 24} \/ z \in {1, 19} THEN 1
                  ELSE IF z % 2 = 0 THEN 0
                  ELSE IF z % 4 = 3 THEN (IF x = 23 THEN 0 ELSE 1)
                  ELSE (IF x = 2 THEN 0 ELSE 1)]],
   doors   |-> << >>,
   enemies |-> << [x |-> 1, y |-> 1, type |-> "guard", patrol |-> FALSE, dir |-> 3] >>,
   statics |-> << >>,
   spawnX |-> 22, spawnY |-> 17, spawnAngle |-> 0]

\* levelWalls after loadLevel: lvl.walls.slice() with every door cell set to -1
LoadWalls(lvl) ==
  LET H == Len(lvl.walls)
      W == Len(lvl.walls[1])
      isDoor(gx, gz) == \E i \in DOMAIN lvl.doors :
                           lvl.doors[i].x = gx /\ lvl.doors[i].y = gz
  IN  [idx \in {gz * MAP_SIZE + gx : gx \in 0..(W - 1), gz \in 0..(H - 1)} |->
         LET gx == idx % MAP_SIZE
             gz == idx \div MAP_SIZE
         IN  IF isDoor(gx, gz) THEN -1 ELSE lvl.walls[gz + 1][gx + 1]]

\* doorMesh.userData of a freshly loaded door
LoadDoors(lvl) ==
  [i \in DOMAIN lvl.doors |->
     [doorType |-> lvl.doors[i].type,
      gridX |-> lvl.doors[i].x, gridY |-> lvl.doors[i].y,
      openAmount |-> 0, opening |-> FALSE, open |-> FALSE,
      closing |-> FALSE, closeTimer |-> 0]]

\* sp.userData and position of a freshly spawned enemy (difficulty 2: every
\* multiplier is 1). fires counts the enemyFireAtPlayer calls since the
\* enemy's last startEnemyAttack.
LoadEnemies(lvl, r) ==
  [i \in DOMAIN lvl.enemies |->
     LET e  == lvl.enemies[i]
         td == ENEMY_TYPES[e.type]
         wx == e.x * CELL + CELL \div 2
         wz == e.y * CELL + CELL \div 2
     IN  [enemyType |-> e.type, alive |-> TRUE, health |-> td.hp,
          x |-> wx, z |-> wz,
          aiState |-> IF e.patrol THEN AI.PATROL ELSE AI.STAND,
          shootCooldown |-> Lerp(td.cooldown[1], td.cooldown[2], r),
          alertTimer |-> 0, painTimer |-> 0,
          attackPhase |-> "none", attackTimer |-> 0, attackDidFire |-> FALSE,
          deathFrame |-> 0, deathFrameTimer |-> 0,
          alerted |-> FALSE,
          lastSeenX |-> wx, lastSeenZ |-> wz, lostSightTimer |-> 0,
          patrolAngle |-> e.dir % 4,
          patrolTimer |-> 2000 + 3 * r,
          investigateX |-> 0, investigateZ |-> 0, investigateTimer |-> 0,
          dodgeTimer |-> 0, dodgeDir |-> 1,
          doorWaitTimer |-> 0, doorWaitX |-> 0, doorWaitZ |-> 0,
          fires |-> 0]]

\* STATINFO[type + 1]: whether the static object of that type blocks and
\* what it is as a pickup ("none": it is not one), for the types 0..46
STATINFO ==
  LET D(b) == [block |-> b, pickup |-> "none"]
      P(t) == [block |-> FALSE, pickup |-> t]
  IN  <<
      D(FALSE), D(TRUE), D(TRUE), D(TRUE), D(FALSE), D(TRUE),
      P("food"), D(TRUE), D(TRUE), D(FALSE), D(TRUE), D(TRUE),
      D(TRUE), D(TRUE), D(FALSE), D(FALSE), D(TRUE), D(TRUE),
      D(TRUE), D(FALSE), P("key1"), P("key2"), D(TRUE), D(FALSE),
      P("food"), P("health"), P("ammo"), P("machinegun"), P("chaingun"), P("cross"),
      P("chalice"), P("bible"), P("crown"), P("oneup"), D(FALSE), D(TRUE),
      D(TRUE), D(TRUE), D(FALSE), D(TRUE), D(TRUE), D(FALSE),
      D(FALSE), D(FALSE), D(FALSE), D(TRUE), D(TRUE) >>

\* levelStatics after loadLevel. A static of the level data is an exit marker
\* (exit) or has a type number; numbers outside STATINFO, the ceiling lamps
\* (4, 14) and the pans (15) place nothing, pickups go to levelPickups, and
\* every other static stands at the centre of its cell
LoadStatics(lvl) ==
  LET placed(s) == \/ s.exit
                   \/ /\ s.type \in 0..(Len(STATINFO) - 1)
                      /\ s.type \notin {4, 14, 15}
                      /\ STATINFO[s.type + 1].pickup = "none"
      kept == SelectSeq(lvl.statics, placed)
  IN  [i \in DOMAIN kept |->
         [x |-> kept[i].x * CELL + CELL \div 2,
          z |-> kept[i].y * CELL + CELL \div 2,
          blocking |-> ~kept[i].exit /\ STATINFO[kept[i].type + 1].block]]

\* levelPickups after loadLevel: the statics of the level data that are pickups
LoadPickups(lvl) ==
  LET pickup(s) == /\ ~s.exit
                   /\ s.type \in 0..(Len(STATINFO) - 1)
                   /\ s.type \notin {4, 14, 15}
                   /\ STATINFO[s.type + 1].pickup # "none"
      kept == SelectSeq(lvl.statics, pickup)
  IN  [i \in DOMAIN kept |->
         [x |-> kept[i].x * CELL + CELL \div 2,
          z |-> kept[i].y * CELL + CELL \div 2,
          pickupType |-> STATINFO[kept[i].type + 1].pickup,
          collected |-> FALSE]]

\* The doors of lvl some time into the game: those marked startOpen have
\* been opened and stand fully open
DoorsInPlay(lvl) ==
  [i \in DOMAIN lvl.doors |->
     IF lvl.doors[i].startOpen
     THEN [LoadDoors(lvl)[i] EXCEPT !.open = TRUE, !.openAmount = 1000]
     ELSE LoadDoors(lvl)[i]]

\* yaw in quarter turns: ((spawnAngle - 90) * PI / 180) / (PI / 2), mod 4
SpawnYaw(lvl) == (((lvl.spawnAngle - 90) \div 90) + 4) % 4

VARIABLES
  levelWalls,      \* wall code of each cell of the level's region
  levelDoors,      \* sequence of door records
  levelEnemies,    \* sequence of enemy records
  levelStatics,    \* sequence of static props
  levelPickups,    \* sequence of pickups dropped by enemies
  camera,          \* the player's position [x, z]
  yaw,             \* the player's facing, in quarter turns
  state,           \* health, ammo, score, shootCooldown, keys
  gameOver,
  pathCache,       \* _pathCache
  pathCacheFrame,  \* _pathCacheFrame, the number of updateEnemies calls
  pathCacheBorn,   \* for each key of pathCache, pathCacheFrame when it was set
  probe            \* the last pure query and its result

vars == <<levelWalls, levelDoors, levelEnemies, levelStatics, levelPickups,
          camera, yaw, state, gameOver, pathCache, pathCacheFrame, pathCacheBorn,
          probe>>

NoProbe == [op |-> "none"]

\* The state startNewGame leaves: the game state reset and the level data
\* lvl loaded, its doors in the states doors (LoadDoors(lvl) after loadLevel)
Loaded(lvl, doors, r) ==
  /\ levelWalls = LoadWalls(lvl)
  /\ levelDoors = doors
  /\ levelEnemies = LoadEnemies(lvl, r)
  /\ levelStatics = LoadStatics(lvl)
  /\ levelPickups = LoadPickups(lvl)
  /\ camera = [x |-> lvl.spawnX * CELL + CELL \div 2,
               z |-> lvl.spawnY * CELL + CELL \div 2]
  /\ yaw = SpawnYaw(lvl)
  /\ state = [health |-> MAX_HEALTH, ammo |-> START_AMMO, score |-> 0,
              shootCooldown |-> 0,
              keys |-> [gold |-> FALSE, silver |-> FALSE]]
  /\ gameOver = FALSE
  /\ pathCache = << >>
  /\ pathCacheFrame = 0
  /\ pathCacheBorn = << >>
  /\ probe = NoProbe

loadLevel(idx, r) == Loaded(LEVELS[idx], LoadDoors(LEVELS[idx]), r)

\* startNewGame() from the menu of a running page, for the level lvl of the
\* chosen episode: the game state is reset and loadLevel replaces the level
\* data; _pathCache and _pathCacheFrame are not written
StartNewGame(lvl, r) ==
  /\ levelWalls' = LoadWalls(lvl)
  /\ levelDoors' = LoadDoors(lvl)
  /\ levelEnemies' = LoadEnemies(lvl, r)
  /\ levelStatics' = LoadStatics(lvl)
  /\ levelPickups' = LoadPickups(lvl)
  /\ camera' = [x |-> lvl.spawnX * CELL + CELL \div 2,
                z |-> lvl.spawnY * CELL + CELL \div 2]
  /\ yaw' = SpawnYaw(lvl)
  /\ state' = [health |-> MAX_HEALTH, ammo |-> START_AMMO, score |-> 0,
               shootCooldown |-> 0,
               keys |-> [gold |-> FALSE, silver |-> FALSE]]
  /\ gameOver' = FALSE
  /\ probe' = [op |-> "load", level |-> lvl, r |-> r]
  /\ UNCHANGED <<pathCache, pathCacheFrame, pathCacheBorn>>

\* ------------------------------------------------------------------------
\* Enemy helpers. c is the tick's context [walls, statics, cam, yaw, dt,
\* frame]; w is the world the enemy loop mutates [enemies, doors, cache,
\* born, health].
\* r is the enemy's Math.random() draw of the tick, in 1/1000.
\* ------------------------------------------------------------------------
\* td.speed * dt * pct / 100
StepLen(td, dt, pct) == (td.speed * dt * pct) \div 1000

\* sin and cos of a heading in quarter turns
Sin4(k) == <<0, 1, 0, -1>>[(k % 4) + 1]
Cos4(k) == <<1, 0, -1, 0>>[(k % 4) + 1]

\* Math.random() * 2 * PI, to the nearest quarter turn
RandomHeading(r) == ((r * 4 + 500) \div 1000) % 4

\* Math.PI * 0.5 + Math.random() * Math.PI, to the nearest quarter turn
RandomTurn(r) == 1 + (r * 2 + 500) \div 1000

\* A variant of startEnemyAttack that does not start the aim phase
startEnemyAttack_NoAim(e, r) ==
  [e EXCEPT !.aiState = AI.ATTACK,
            !.attackTimer = Lerp(140, 240, r),
            !.attackDidFire = FALSE,
            !.fires = 0]

startEnemyAttack(e, r) ==
  [e EXCEPT !.aiState = AI.ATTACK,
            !.attackPhase = "aim",
            !.attackTimer = Lerp(140, 240, r),
            !.attackDidFire = FALSE,
            !.fires = 0]

finishEnemyAttack(e, r) ==
  LET td == ENEMY_TYPES[e.enemyType]
      e1 == [e EXCEPT !.attackPhase = "none", !.attackTimer = 0,
                      !.attackDidFire = FALSE]
  IN  IF td.dodges /\ r < 600
      THEN [e1 EXCEPT !.aiState = AI.DODGE,
                      !.dodgeTimer = Lerp(350, 700, r),
                      !.dodgeDir = IF r < 500 THEN 1 ELSE -1]
      ELSE [e1 EXCEPT !.aiState = AI.CHASE]

\* state.health after applyPlayerDamageFeedback(dmg)
applyPlayerDamageFeedback(health, dmg) ==
  IF dmg <= 0 THEN health ELSE Max(0, health - dmg)

\* Math.floor(Math.random() * 256)
Roll256(r) == (r * 256) \div 1000

\* rawDamage >> n
Shr(a, n) == IF n = 2 THEN a \div 4 ELSE IF n = 3 THEN a \div 8 ELSE a \div 16

\* facingDiff < Math.PI / 3: the angle between (sin yaw, cos yaw) and the
\* direction from the player to the enemy is below 60 degrees
FacingWithin60(c, e) ==
  LET vx == e.x - c.cam.x
      vz == e.z - c.cam.z
      dot == Sin4(c.yaw) * vx + Cos4(c.yaw) * vz
  IN  dot > 0 /\ 4 * dot * dot > vx * vx + vz * vz

\* Math.round(rawDamage * Math.max(0.4, (dmg[0] + dmg[1]) / 24))
ScaledDamage(td, rawDamage) ==
  IF 10 * (td.dmg[1] + td.dmg[2]) >= 96
  THEN (2 * rawDamage * (td.dmg[1] + td.dmg[2]) + 24) \div 48
  ELSE (2 * rawDamage * 4 + 10) \div 20

\* state.health after enemyAttemptHitPlayer(e, dist). The player does not
\* run, so the base hit chance is 256. Chances are in 1/1000.
enemyAttemptHitPlayer(c, e, health, dist, r) ==
  LET td == ENEMY_TYPES[e.enemyType]
      tileDist == (dist * 1000) \div CELL
      effectiveDist == IF e.enemyType \in {"ss", "boss"}
                       THEN (tileDist * 2) \div 3 ELSE tileDist
      hitChance == Max(8000, Min(255000,
                     256000 - effectiveDist * (IF FacingWithin60(c, e) THEN 16 ELSE 8)))
      rawDamage == IF effectiveDist < 2000 THEN Shr(Roll256(r), 2)
                   ELSE IF effectiveDist < 4000 THEN Shr(Roll256(r), 3)
                   ELSE Shr(Roll256(r), 4)
      dmg == Min(td.dmg[2] * 3, Max(1, ScaledDamage(td, rawDamage)))
  IN  IF Roll256(r) * 1000 >= hitChance THEN health
      ELSE applyPlayerDamageFeedback(health, dmg)

\* state.health after enemyFireAtPlayer(e, dist)
enemyFireAtPlayer(c, w, e, dist, r) ==
  LET td == ENEMY_TYPES[e.enemyType]
      eLos == hasLineOfSight(c.walls, w.doors, e.x, e.z, c.cam.x, c.cam.z)
      rawMelee == Shr(Roll256(r), 4)
  IN  IF td.melee
      THEN IF dist >= 1350 \/ ~eLos \/ Roll256(r) >= 180 THEN w.health
           ELSE applyPlayerDamageFeedback(w.health,
                                          Max(td.dmg[1], Min(td.dmg[2], rawMelee)))
      ELSE IF dist >= td.shootDist \/ ~eLos THEN w.health
      ELSE enemyAttemptHitPlayer(c, e, w.health, dist, r)

\* A variant of enemyTryOpenDoor without the test of canOpenDoors
enemyTryOpenDoor_AnyEnemy(c, w, i, gx, gz) ==
  LET d == getDoorAt(c.walls, w.doors, gx, gz)
      e == w.enemies[i]
  IN  IF d = 0 THEN [ok |-> FALSE, w |-> w]
      ELSE IF w.doors[d].open THEN [ok |-> FALSE, w |-> w]
      ELSE IF w.doors[d].opening /\ ~w.doors[d].closing THEN [ok |-> FALSE, w |-> w]
      ELSE IF w.doors[d].doorType \in {"gold", "silver", "elevator"}
           THEN [ok |-> FALSE, w |-> w]
      ELSE [ok |-> TRUE,
            w  |-> [w EXCEPT !.doors[d].closing = FALSE,
                             !.doors[d].opening = TRUE,
                             !.enemies[i].aiState = AI.DOOR_WAIT,
                             !.enemies[i].doorWaitTimer = 1000,
                             !.enemies[i].doorWaitX = gx,
                             !.enemies[i].doorWaitZ = gz]]

\* A variant of enemyTryOpenDoor without the test of the door's type
enemyTryOpenDoor_AnyDoor(c, w, i, gx, gz) ==
  LET d == getDoorAt(c.walls, w.doors, gx, gz)
      e == w.enemies[i]
  IN  IF d = 0 THEN [ok |-> FALSE, w |-> w]
      ELSE IF w.doors[d].open THEN [ok |-> FALSE, w |-> w]
      ELSE IF w.doors[d].opening /\ ~w.doors[d].closing THEN [ok |-> FALSE, w |-> w]
      ELSE IF ~ENEMY_TYPES[e.enemyType].canOpenDoors THEN [ok |-> FALSE, w |-> w]
      ELSE [ok |-> TRUE,
            w  |-> [w EXCEPT !.doors[d].closing = FALSE,
                             !.doors[d].opening = TRUE,
                             !.enemies[i].aiState = AI.DOOR_WAIT,
                             !.enemies[i].doorWaitTimer = 1000,
                             !.enemies[i].doorWaitX = gx,
                             !.enemies[i].doorWaitZ = gz]]

\* enemyTryOpenDoor(e, gx, gz): whether the door was triggered, and the world
enemyTryOpenDoor(c, w, i, gx, gz) ==
  LET d == getDoorAt(c.walls, w.doors, gx, gz)
      e == w.enemies[i]
  IN  IF d = 0 THEN [ok |-> FALSE, w |-> w]
      ELSE IF w.doors[d].open THEN [ok |-> FALSE, w |-> w]
      ELSE IF w.doors[d].opening /\ ~w.doors[d].closing THEN [ok |-> FALSE, w |-> w]
      ELSE IF w.doors[d].doorType \in {"gold", "silver", "elevator"}
           THEN [ok |-> FALSE, w |-> w]
      ELSE IF ~ENEMY_TYPES[e.enemyType].canOpenDoors THEN [ok |-> FALSE, w |-> w]
      ELSE [ok |-> TRUE,
            w  |-> [w EXCEPT !.doors[d].closing = FALSE,
                             !.doors[d].opening = TRUE,
                             !.enemies[i].aiState = AI.DOOR_WAIT,
                             !.enemies[i].doorWaitTimer = 1000,
                             !.enemies[i].doorWaitX = gx,
                             !.enemies[i].doorWaitZ = gz]]

\* The world with enemy i replaced by e
SetEnemy(w, i, e) == [w EXCEPT !.enemies[i] = e]

\* The world with enemy i moved to (x, z)
MoveEnemy(w, i, x, z) == [w EXCEPT !.enemies[i].x = x, !.enemies[i].z = z]

\* eBlocked(wx, wz) of moveEnemyToward on a single-story level
eBlocked(c, w, x, z) == isBlocked(c.walls, w.doors, c.statics, x, z)

\* "door && !door.userData.open && !door.userData.opening" for door index d
DoorShut(doors, d) == d # 0 /\ ~doors[d].open /\ ~doors[d].opening

\* The door check of moveEnemyToward for cell (gx, gz): enemyTryOpenDoor runs
\* if the cell holds a door that is neither open nor opening
OpenDoorAhead(c, w, i, gx, gz) ==
  IF DoorShut(w.doors, getDoorAt(c.walls, w.doors, gx, gz))
  THEN enemyTryOpenDoor(c, w, i, gx, gz)
  ELSE [ok |-> FALSE, w |-> w]

\* The three position tries of the path branch: (x, z), then x alone, then z
\* alone
SlideTo(c, w, i, x, z) ==
  IF ~eBlocked(c, w, x, z) THEN MoveEnemy(w, i, x, z)
  ELSE IF ~eBlocked(c, w, x, w.enemies[i].z) THEN [w EXCEPT !.enemies[i].x = x]
  ELSE IF ~eBlocked(c, w, w.enemies[i].x, z) THEN [w EXCEPT !.enemies[i].z = z]
  ELSE w

\* The step toward the centre (cellWX, cellWZ) of the path's first cell, after
\* the door check tryDoor
FollowStep(c, w, i, cellWX, cellWZ, step, tryDoor) ==
  LET e == w.enemies[i]
      pdx == cellWX - e.x
      pdz == cellWZ - e.z
      pDist == Dist(pdx, pdz)
  IN  IF tryDoor.ok THEN tryDoor.w
      ELSE IF pdx * pdx + pdz * pdz > 100 * 100
      THEN SlideTo(c, w, i, e.x + MulDiv(pdx, step, pDist),
                            e.z + MulDiv(pdz, step, pDist))
      ELSE w

\* The path-following branch of moveEnemyToward, after findPath returned path
FollowPath(c, w, i, path, step) ==
  FollowStep(c, w, i, path[1].x * CELL + CELL \div 2, path[1].z * CELL + CELL \div 2,
             step, OpenDoorAhead(c, w, i, path[1].x, path[1].z))

\* The world after a findPath call with result fp: the cache as the call
\* leaves it, a stored result marked with the tick's number
SetCache(c, w, fp) ==
  [w EXCEPT !.cache = fp.cache,
            !.born = IF fp.searched THEN (fp.key :> c.frame) @@ @ ELSE @]

\* The end of moveEnemyToward once direct movement and axis sliding failed:
\* fp is findPath's result; without a path the enemy tries a step (fx, fz)
\* perpendicular to its direction
MoveByPath(c, w, i, step, fp, fx, fz) ==
  IF fp.path # << >>
  THEN FollowPath(c, SetCache(c, w, fp), i, fp.path, step)
  ELSE IF ~eBlocked(c, w, fx, fz)
  THEN MoveEnemy(SetCache(c, w, fp), i, fx, fz)
  ELSE SetCache(c, w, fp)

\* moveEnemyToward after the direct step (sx, sz) was found blocked: the door
\* check tryDoor, axis sliding, then A*
MoveBlocked(c, w, i, targetX, targetZ, step, r, sx, sz, tryDoor) ==
  LET e == w.enemies[i]
  IN  IF tryDoor.ok THEN tryDoor.w
      ELSE IF ~eBlocked(c, w, e.x + sx, e.z) THEN [w EXCEPT !.enemies[i].x = e.x + sx]
      ELSE IF ~eBlocked(c, w, e.x, e.z + sz) THEN [w EXCEPT !.enemies[i].z = e.z + sz]
      ELSE MoveByPath(c, w, i, step,
                      findPath(c.walls, w.doors, w.cache, e.x, e.z, targetX, targetZ),
                      \* sin and cos of atan2(dirX, dirZ) +- PI / 2, times the step
                      IF r < 500 THEN e.x + sz ELSE e.x - sz,
                      IF r < 500 THEN e.z - sx ELSE e.z + sx)

\* moveEnemyToward with the step vector (sx, sz) = dir * speed
MoveDirect(c, w, i, targetX, targetZ, step, r, sx, sz) ==
  LET e == w.enemies[i]
  IN  IF ~eBlocked(c, w, e.x + sx, e.z + sz)
      THEN MoveEnemy(w, i, e.x + sx, e.z + sz)
      ELSE MoveBlocked(c, w, i, targetX, targetZ, step, r, sx, sz,
                       OpenDoorAhead(c, w, i, Cell(e.x + sx), Cell(e.z + sz)))

\* moveEnemyToward(e, targetX, targetZ, dt) with step = td.speed * dt
moveEnemyToward(c, w, i, targetX, targetZ, step, r) ==
  LET e == w.enemies[i]
      ddx == targetX - e.x
      ddz == targetZ - e.z
      dDist == Dist(ddx, ddz)
  IN  IF dDist < 500 THEN w
      ELSE MoveDirect(c, w, i, targetX, targetZ, step, r,
                      MulDiv(ddx, step, dDist), MulDiv(ddz, step, dDist))

\* ------------------------------------------------------------------------
\* updateEnemies: one operator per case of the state switch. dist and canSee
\* are the values computed before the switch.
\* ------------------------------------------------------------------------
PlayerDist(c, e) == Dist(c.cam.x - e.x, c.cam.z - e.z)

CanSee(c, w, e) ==
  /\ PlayerDist(c, e) < ENEMY_TYPES[e.enemyType].alertDist
  /\ hasLineOfSight(c.walls, w.doors, e.x, e.z, c.cam.x, c.cam.z)

\* A variant of the reaction that sends every type into ALERT
SpotPlayer_AlwaysAlert(c, e, lo, hi, r) ==
  [e EXCEPT !.alerted = TRUE, !.aiState = AI.ALERT,
            !.alertTimer = Lerp(lo, hi, r)]

\* The reaction of STAND and PATROL to seeing the player; lo..hi is the range
\* of the alert timer
SpotPlayer(c, e, lo, hi, r) ==
  IF ENEMY_TYPES[e.enemyType].silent
  THEN [e EXCEPT !.alerted = TRUE, !.aiState = AI.CHASE,
                 !.lastSeenX = c.cam.x, !.lastSeenZ = c.cam.z]
  ELSE [e EXCEPT !.alerted = TRUE, !.aiState = AI.ALERT,
                 !.alertTimer = Lerp(lo, hi, r)]

StandStep(c, w, i, r, dist, canSee) ==
  LET e == w.enemies[i]
  IN  IF canSee
      THEN SetEnemy(w, i, SpotPlayer(c, e, 100, 250, r))
      ELSE IF e.patrolTimer - c.dt <= 0
      THEN SetEnemy(w, i, [e EXCEPT !.patrolTimer = Lerp(3000, 7000, r),
                                    !.aiState = AI.PATROL,
                                    !.patrolAngle = RandomHeading(r)])
      ELSE SetEnemy(w, i, [e EXCEPT !.patrolTimer = @ - c.dt])

\* PATROL after the move: e1 is the enemy moved or turned
PatrolEnd(c, w, i, r, canSee, e1) ==
  LET e2 == IF e1.patrolTimer - c.dt <= 0
            THEN [e1 EXCEPT !.aiState = AI.STAND, !.patrolTimer = Lerp(2000, 5000, r)]
            ELSE [e1 EXCEPT !.patrolTimer = @ - c.dt]
  IN  IF canSee THEN SetEnemy(w, i, SpotPlayer(c, e2, 80, 200, r))
      ELSE SetEnemy(w, i, e2)

PatrolStep(c, w, i, r, dist, canSee) ==
  LET e == w.enemies[i]
      speed == StepLen(ENEMY_TYPES[e.enemyType], c.dt, 40)
      nx == e.x + Sin4(e.patrolAngle) * speed
      nz == e.z + Cos4(e.patrolAngle) * speed
  IN  PatrolEnd(c, w, i, r, canSee,
                IF ~eBlocked(c, w, nx, nz)
                THEN [e EXCEPT !.x = nx, !.z = nz]
                ELSE [e EXCEPT !.patrolAngle = (@ + RandomTurn(r)) % 4])

\* A variant of the ALERT case that goes to CHASE without recording where the
\* player is
AlertStep_KeepsLastSeen(c, w, i, r, dist, canSee) ==
  LET e == w.enemies[i]
  IN  IF e.alertTimer - c.dt <= 0
      THEN SetEnemy(w, i, [e EXCEPT !.alertTimer = @ - c.dt,
                                    !.aiState = AI.CHASE])
      ELSE SetEnemy(w, i, [e EXCEPT !.alertTimer = @ - c.dt])

AlertStep(c, w, i, r, dist, canSee) ==
  LET e == w.enemies[i]
  IN  IF e.alertTimer - c.dt <= 0
      THEN SetEnemy(w, i, [e EXCEPT !.alertTimer = @ - c.dt,
                                    !.aiState = AI.CHASE,
                                    !.lastSeenX = c.cam.x, !.lastSeenZ = c.cam.z])
      ELSE SetEnemy(w, i, [e EXCEPT !.alertTimer = @ - c.dt])

\* INVESTIGATE after the move: the timer runs; at <= 0, or within 2 units of
\* the source (iD2 is the squared distance before the move), back to STAND
InvestigateEnd(c, w, i, r, iD2) ==
  IF w.enemies[i].investigateTimer - c.dt <= 0 \/ iD2 < 2000 * 2000
  THEN [w EXCEPT !.enemies[i].investigateTimer = @ - c.dt,
                 !.enemies[i].aiState = AI.STAND,
                 !.enemies[i].patrolTimer = Lerp(1000, 3000, r)]
  ELSE [w EXCEPT !.enemies[i].investigateTimer = @ - c.dt]

InvestigateStep(c, w, i, r, dist, canSee) ==
  LET e == w.enemies[i]
      ix == e.investigateX
      iz == e.investigateZ
      iD2 == (ix - e.x) * (ix - e.x) + (iz - e.z) * (iz - e.z)
  IN  IF canSee
      THEN SetEnemy(w, i, [e EXCEPT !.aiState = AI.CHASE,
                                    !.lastSeenX = c.cam.x, !.lastSeenZ = c.cam.z])
      ELSE InvestigateEnd(c,
             IF iD2 > 2000 * 2000
             THEN moveEnemyToward(c, w, i, ix, iz,
                                  StepLen(ENEMY_TYPES[e.enemyType], c.dt, 108), r)
             ELSE w,
             i, r, iD2)

\* A variant of the attack decision that does not wait for the cooldown
AttackDecision_NoCooldown(c, e, dist, canSee, r) ==
  LET td == ENEMY_TYPES[e.enemyType]
  IN  IF canSee /\ dist < td.shootDist
      THEN IF TRUE
           THEN [started |-> TRUE,
                 e |-> [startEnemyAttack(e, r) EXCEPT
                          !.shootCooldown = Lerp(td.cooldown[1], td.cooldown[2], r)]]
           ELSE [started |-> FALSE, e |-> [e EXCEPT !.shootCooldown = @ - c.dt]]
      ELSE [started |-> FALSE, e |-> e]

\* The attack decision shared by CHASE and DODGE: the cooldown counts down
\* while the player is visible within shootDist; at <= 0 the attack starts
\* and the cooldown is re-rolled.
AttackDecision(c, e, dist, canSee, r) ==
  LET td == ENEMY_TYPES[e.enemyType]
  IN  IF canSee /\ dist < td.shootDist
      THEN IF e.shootCooldown - c.dt <= 0
           THEN [started |-> TRUE,
                 e |-> [startEnemyAttack(e, r) EXCEPT
                          !.shootCooldown = Lerp(td.cooldown[1], td.cooldown[2], r)]]
           ELSE [started |-> FALSE, e |-> [e EXCEPT !.shootCooldown = @ - c.dt]]
      ELSE [started |-> FALSE, e |-> e]

\* A variant of the end of CHASE that gives the pursuit up for STAND at once
ChaseLost_ToStand(c, w, i, canSee, tD2) ==
  IF canSee THEN w
  ELSE IF tD2 < 2000 * 2000 \/ w.enemies[i].lostSightTimer + c.dt > 8000
  THEN [w EXCEPT !.enemies[i].lostSightTimer = @ + c.dt,
                 !.enemies[i].aiState = AI.STAND]
  ELSE [w EXCEPT !.enemies[i].lostSightTimer = @ + c.dt]

\* The end of CHASE: out of sight the lost-sight timer runs, and within 2
\* units of the last seen position (tD2 is the squared distance before the
\* move) or after 8 s the enemy investigates that position
ChaseLost(c, w, i, canSee, tD2) ==
  IF canSee THEN w
  ELSE IF tD2 < 2000 * 2000 \/ w.enemies[i].lostSightTimer + c.dt > 8000
  THEN [w EXCEPT !.enemies[i].lostSightTimer = @ + c.dt,
                 !.enemies[i].aiState = AI.INVESTIGATE,
                 !.enemies[i].investigateX = w.enemies[i].lastSeenX,
                 !.enemies[i].investigateZ = w.enemies[i].lastSeenZ,
                 !.enemies[i].investigateTimer = 3000]
  ELSE [w EXCEPT !.enemies[i].lostSightTimer = @ + c.dt]

\* The movement of CHASE toward the player or the last seen position
ChaseMove(c, w, i, r, canSee) ==
  LET e == w.enemies[i]
      td == ENEMY_TYPES[e.enemyType]
      tx == IF canSee THEN c.cam.x ELSE e.lastSeenX
      tz == IF canSee THEN c.cam.z ELSE e.lastSeenZ
      tD2 == (tx - e.x) * (tx - e.x) + (tz - e.z) * (tz - e.z)
      minDist == IF td.rushes THEN 450 ELSE IF td.melee THEN 900 ELSE 2100
  IN  ChaseLost(c,
        IF tD2 > minDist * minDist
        THEN moveEnemyToward(c, w, i, tx, tz,
                             StepLen(td, c.dt, IF canSee THEN 122 ELSE 108), r)
        ELSE IF td.dodges /\ canSee /\ r < 20
        THEN [w EXCEPT !.enemies[i].aiState = AI.DODGE,
                       !.enemies[i].dodgeTimer = Lerp(500, 1000, r),
                       !.enemies[i].dodgeDir = IF r < 500 THEN 1 ELSE -1]
        ELSE w,
        i, canSee, tD2)

\* CHASE after the attack decision dec: a started attack ends the case
ChaseDecided(c, w, i, r, canSee, dec) ==
  IF dec.started THEN SetEnemy(w, i, dec.e)
  ELSE ChaseMove(c, SetEnemy(w, i, dec.e), i, r, canSee)

ChaseStep(c, w, i, r, dist, canSee) ==
  LET e == w.enemies[i]
  IN  ChaseDecided(c, w, i, r, canSee,
        AttackDecision(c,
          IF canSee
          THEN [e EXCEPT !.lastSeenX = c.cam.x, !.lastSeenZ = c.cam.z,
                         !.lostSightTimer = 0]
          ELSE e,
          dist, canSee, r))

\* DODGE after the sidestep: e1 is the enemy moved or turned round
DodgeEnd(c, w, i, r, dist, canSee, e1) ==
  SetEnemy(w, i,
    AttackDecision(c,
      IF e1.dodgeTimer - c.dt <= 0
      THEN [e1 EXCEPT !.dodgeTimer = @ - c.dt, !.aiState = AI.CHASE]
      ELSE [e1 EXCEPT !.dodgeTimer = @ - c.dt],
      dist, canSee, r).e)

\* A variant of the DODGE case that sidesteps without the collision test
DodgeStep_Unchecked(c, w, i, r, dist, canSee) ==
  LET e == w.enemies[i]
      den == IF dist = 0 THEN 1000 ELSE dist
      speed == StepLen(ENEMY_TYPES[e.enemyType], c.dt, 80)
      nx == e.x + MulDiv(-(c.cam.z - e.z) * e.dodgeDir, speed, den)
      nz == e.z + MulDiv((c.cam.x - e.x) * e.dodgeDir, speed, den)
  IN  DodgeEnd(c, w, i, r, dist, canSee, [e EXCEPT !.x = nx, !.z = nz])

DodgeStep(c, w, i, r, dist, canSee) ==
  LET e == w.enemies[i]
      den == IF dist = 0 THEN 1000 ELSE dist
      speed == StepLen(ENEMY_TYPES[e.enemyType], c.dt, 80)
      nx == e.x + MulDiv(-(c.cam.z - e.z) * e.dodgeDir, speed, den)
      nz == e.z + MulDiv((c.cam.x - e.x) * e.dodgeDir, speed, den)
  IN  DodgeEnd(c, w, i, r, dist, canSee,
               IF ~eBlocked(c, w, nx, nz)
               THEN [e EXCEPT !.x = nx, !.z = nz]
               ELSE [e EXCEPT !.dodgeDir = -@])

\* A variant of the ATTACK case without the attackDidFire latch: damage is
\* resolved again in every tick of the fire phase
AttackStep_Refire(c, w, i, r, dist, canSee) ==
  LET e == w.enemies[i]
  IN  IF e.attackPhase = "aim" /\ e.attackTimer - c.dt <= 0
      THEN [w EXCEPT !.enemies[i] = [e EXCEPT !.attackPhase = "fire",
                                              !.attackTimer = 200,
                                              !.attackDidFire = TRUE,
                                              !.fires = @ + 1],
                     !.health = enemyFireAtPlayer(c, w, e, dist, r)]
      ELSE IF e.attackPhase = "fire" /\ e.attackTimer - c.dt <= 0
      THEN SetEnemy(w, i, finishEnemyAttack([e EXCEPT !.attackTimer = @ - c.dt], r))
      ELSE IF e.attackPhase = "fire"
      THEN [w EXCEPT !.enemies[i] = [e EXCEPT !.attackTimer = @ - c.dt,
                                              !.fires = @ + 1],
                     !.health = enemyFireAtPlayer(c, w, e, dist, r)]
      ELSE SetEnemy(w, i, [e EXCEPT !.attackTimer = @ - c.dt])

AttackStep(c, w, i, r, dist, canSee) ==
  LET e == w.enemies[i]
  IN  IF e.attackPhase = "aim" /\ e.attackTimer - c.dt <= 0
      THEN IF ~e.attackDidFire
           THEN [w EXCEPT !.enemies[i] = [e EXCEPT !.attackPhase = "fire",
                                                   !.attackTimer = 200,
                                                   !.attackDidFire = TRUE,
                                                   !.fires = @ + 1],
                          !.health = enemyFireAtPlayer(c, w, e, dist, r)]
           ELSE SetEnemy(w, i, [e EXCEPT !.attackPhase = "fire", !.attackTimer = 200])
      ELSE IF e.attackPhase = "fire" /\ e.attackTimer - c.dt <= 0
      THEN SetEnemy(w, i, finishEnemyAttack([e EXCEPT !.attackTimer = @ - c.dt], r))
      ELSE SetEnemy(w, i, [e EXCEPT !.attackTimer = @ - c.dt])

\* "!door || door.userData.open" for door index d
DoorGoneOrOpen(doors, d) == d = 0 \/ doors[d].open

\* A variant of the DOOR_WAIT case that waits for the timer alone
DoorWaitStep_TimerOnly(c, w, i, r, dist, canSee) ==
  LET e == w.enemies[i]
  IN  IF e.doorWaitTimer - c.dt <= 0
      THEN SetEnemy(w, i, [e EXCEPT !.doorWaitTimer = @ - c.dt,
                                    !.aiState = IF e.alerted THEN AI.CHASE ELSE AI.PATROL])
      ELSE SetEnemy(w, i, [e EXCEPT !.doorWaitTimer = @ - c.dt])

DoorWaitStep(c, w, i, r, dist, canSee) ==
  LET e == w.enemies[i]
  IN  IF \/ DoorGoneOrOpen(w.doors, getDoorAt(c.walls, w.doors, e.doorWaitX, e.doorWaitZ))
         \/ e.doorWaitTimer - c.dt <= 0
      THEN SetEnemy(w, i, [e EXCEPT !.doorWaitTimer = @ - c.dt,
                                    !.aiState = IF e.alerted THEN AI.CHASE ELSE AI.PATROL])
      ELSE SetEnemy(w, i, [e EXCEPT !.doorWaitTimer = @ - c.dt])

PainStep(c, w, i, r, dist, canSee) ==
  LET e == w.enemies[i]
  IN  IF e.painTimer - c.dt <= 0
      THEN SetEnemy(w, i, [e EXCEPT !.painTimer = @ - c.dt,
                                    !.aiState = AI.CHASE,
                                    !.lastSeenX = c.cam.x, !.lastSeenZ = c.cam.z])
      ELSE SetEnemy(w, i, [e EXCEPT !.painTimer = @ - c.dt])

\* A variant of the DYING branch whose frame test is off by one
\* (deathFrame < length instead of length - 1): one frame too many is shown
DyingStep_OffByOne(c, w, i, r) ==
  LET e == w.enemies[i]
  IN  IF e.deathFrameTimer - c.dt <= 0
      THEN IF e.deathFrame < getEnemyDeathFrames(e)
           THEN SetEnemy(w, i, [e EXCEPT !.deathFrame = @ + 1, !.deathFrameTimer = 120])
           ELSE SetEnemy(w, i, [e EXCEPT !.deathFrameTimer = @ - c.dt,
                                         !.aiState = AI.DEAD])
      ELSE SetEnemy(w, i, [e EXCEPT !.deathFrameTimer = @ - c.dt])

\* The DYING branch: the frame timer counts down; at <= 0 the next death frame
\* is shown, or after the last one the enemy is DEAD
DyingStep(c, w, i, r) ==
  LET e == w.enemies[i]
  IN  IF e.deathFrameTimer - c.dt <= 0
      THEN IF e.deathFrame < getEnemyDeathFrames(e) - 1
           THEN SetEnemy(w, i, [e EXCEPT !.deathFrame = @ + 1, !.deathFrameTimer = 120])
           ELSE SetEnemy(w, i, [e EXCEPT !.deathFrameTimer = @ - c.dt,
                                         !.aiState = AI.DEAD])
      ELSE SetEnemy(w, i, [e EXCEPT !.deathFrameTimer = @ - c.dt])

\* The switch over e.userData.aiState
EnemySwitch(c, w, i, r, dist, canSee) ==
  LET s == w.enemies[i].aiState
  IN  IF s = AI.STAND THEN StandStep(c, w, i, r, dist, canSee)
      ELSE IF s = AI.PATROL THEN PatrolStep(c, w, i, r, dist, canSee)
      ELSE IF s = AI.ALERT THEN AlertStep(c, w, i, r, dist, canSee)
      ELSE IF s = AI.INVESTIGATE THEN InvestigateStep(c, w, i, r, dist, canSee)
      ELSE IF s = AI.CHASE THEN ChaseStep(c, w, i, r, dist, canSee)
      ELSE IF s = AI.DODGE THEN DodgeStep(c, w, i, r, dist, canSee)
      ELSE IF s = AI.ATTACK THEN AttackStep(c, w, i, r, dist, canSee)
      ELSE IF s = AI.DOOR_WAIT THEN DoorWaitStep(c, w, i, r, dist, canSee)
      ELSE IF s = AI.PAIN THEN PainStep(c, w, i, r, dist, canSee)
      ELSE w

\* The body of the loop over levelEnemies for enemy i
UpdateEnemy(c, w, i, r) ==
  LET e == w.enemies[i]
  IN  IF e.aiState = AI.DEAD THEN w
      ELSE IF e.aiState = AI.DYING THEN DyingStep(c, w, i, r)
      ELSE IF ~e.alive THEN w
      ELSE EnemySwitch(c, w, i, r, PlayerDist(c, e), CanSee(c, w, e))

\* The loop over levelEnemies, from enemy i on; rnd[i] is enemy i's draw
RECURSIVE EnemyLoop(_, _, _, _)
EnemyLoop(c, w, i, rnd) ==
  IF i > Len(w.enemies) THEN w
  ELSE EnemyLoop(c, UpdateEnemy(c, w, i, rnd[i]), i + 1, rnd)

\* A variant of updateEnemies that clears the cache on every 16th call
updateEnemies_Every16(c, w, frame, rnd) ==
  EnemyLoop(c, [w EXCEPT !.cache = IF frame % 16 = 0 THEN << >> ELSE @], 1, rnd)

\* updateEnemies(dt): the cache is cleared on every 15th call, then every
\* enemy is updated in list order
updateEnemies(c, w, frame, rnd) ==
  EnemyLoop(c, [w EXCEPT !.cache = IF frame % 15 = 0 THEN << >> ELSE @], 1, rnd)

\* levelWalls = null, as clearLevel leaves it
NoWalls == << >>

\* clearLevel(): the level's doors, enemies, statics and pickups are dropped
\* and the wall grid is null
clearLevel ==
  /\ levelWalls' = NoWalls
  /\ levelDoors' = << >>
  /\ levelEnemies' = << >>
  /\ levelStatics' = << >>
  /\ levelPickups' = << >>

\* loadLevel(levelIdx) while a level is loaded, for a levelIdx that LEVELS
\* does not hold: clearLevel() runs, then the missing level is logged and
\* the function returns
LoadMissing ==
  /\ levelWalls # NoWalls
  /\ clearLevel
  /\ probe' = [op |-> "loadLevel", found |-> FALSE]
  /\ UNCHANGED <<camera, yaw, state, gameOver, pathCache, pathCacheFrame,
                 pathCacheBorn>>

\* ------------------------------------------------------------------------
\* Sound alerting and shooting
\* ------------------------------------------------------------------------
Engaged == {AI.CHASE, AI.ATTACK, AI.DODGE, AI.PAIN}

\* A variant of alertEnemiesBySound that leaves the alerted flag alone
alertEnemiesBySound_NoFlag(walls, doors, enemies, sourceX, sourceZ, radius, r) ==
  LET cells == alertedCells(walls, doors, sourceX, sourceZ, radius)
  IN  [i \in DOMAIN enemies |->
         LET e == enemies[i]
         IN  IF ~e.alive THEN e
             ELSE IF Cell(e.x) * MAP_SIZE + Cell(e.z) \notin cells THEN e
             ELSE IF e.aiState \in Engaged THEN e
             ELSE [e EXCEPT !.aiState = AI.INVESTIGATE,
                            !.investigateX = sourceX,
                            !.investigateZ = sourceZ,
                            !.investigateTimer = Lerp(4000, 7000, r)]]

\* A variant of alertEnemiesBySound that also alerts every enemy within the
\* straight-line distance radius of the source, flooded cell or not
alertEnemiesBySound_DirectRadius(walls, doors, enemies, sourceX, sourceZ, radius, r) ==
  LET cells == alertedCells(walls, doors, sourceX, sourceZ, radius)
  IN  [i \in DOMAIN enemies |->
         LET e == enemies[i]
         IN  IF ~e.alive THEN e
             ELSE IF /\ Cell(e.x) * MAP_SIZE + Cell(e.z) \notin cells
                     /\ Dist(e.x - sourceX, e.z - sourceZ) > radius
             THEN e
             ELSE IF e.aiState \in Engaged THEN e
             ELSE [e EXCEPT !.alerted = TRUE,
                            !.aiState = AI.INVESTIGATE,
                            !.investigateX = sourceX,
                            !.investigateZ = sourceZ,
                            !.investigateTimer = Lerp(4000, 7000, r)]]

\* alertEnemiesBySound without the skip of engaged enemies
alertEnemiesBySound_NoSkip(walls, doors, enemies, sourceX, sourceZ, radius, r) ==
  LET cells == alertedCells(walls, doors, sourceX, sourceZ, radius)
  IN  [i \in DOMAIN enemies |->
         LET e == enemies[i]
         IN  IF ~e.alive THEN e
             ELSE IF Cell(e.x) * MAP_SIZE + Cell(e.z) \notin cells THEN e
             ELSE [e EXCEPT !.alerted = TRUE,
                            !.aiState = AI.INVESTIGATE,
                            !.investigateX = sourceX,
                            !.investigateZ = sourceZ,
                            !.investigateTimer = Lerp(4000, 7000, r)]]

\* A variant of alertEnemiesBySound that also leaves agents in ALERT alone
alertEnemiesBySound_SkipsAlert(walls, doors, enemies, sourceX, sourceZ, radius, r) ==
  LET cells == alertedCells(walls, doors, sourceX, sourceZ, radius)
  IN  [i \in DOMAIN enemies |->
         LET e == enemies[i]
         IN  IF ~e.alive THEN e
             ELSE IF Cell(e.x) * MAP_SIZE + Cell(e.z) \notin cells THEN e
             ELSE IF e.aiState \in Engaged \cup {AI.ALERT} THEN e
             ELSE [e EXCEPT !.alerted = TRUE,
                            !.aiState = AI.INVESTIGATE,
                            !.investigateX = sourceX,
                            !.investigateZ = sourceZ,
                            !.investigateTimer = Lerp(4000, 7000, r)]]

\* A variant of alertEnemiesBySound without the test of e.userData.alive
alertEnemiesBySound_WakesDead(walls, doors, enemies, sourceX, sourceZ, radius, r) ==
  LET cells == alertedCells(walls, doors, sourceX, sourceZ, radius)
  IN  [i \in DOMAIN enemies |->
         LET e == enemies[i]
         IN  IF Cell(e.x) * MAP_SIZE + Cell(e.z) \notin cells THEN e
             ELSE IF e.aiState \in Engaged THEN e
             ELSE [e EXCEPT !.alerted = TRUE,
                            !.aiState = AI.INVESTIGATE,
                            !.investigateX = sourceX,
                            !.investigateZ = sourceZ,
                            !.investigateTimer = Lerp(4000, 7000, r)]]

\* The loop of alertEnemiesBySound over levelEnemies: the enemies after it
alertEnemiesBySound(walls, doors, enemies, sourceX, sourceZ, radius, r) ==
  LET cells == alertedCells(walls, doors, sourceX, sourceZ, radius)
  IN  [i \in DOMAIN enemies |->
         LET e == enemies[i]
         IN  IF ~e.alive THEN e
             ELSE IF Cell(e.x) * MAP_SIZE + Cell(e.z) \notin cells THEN e
             ELSE IF e.aiState \in Engaged THEN e
             ELSE [e EXCEPT !.alerted = TRUE,
                            !.aiState = AI.INVESTIGATE,
                            !.investigateX = sourceX,
                            !.investigateZ = sourceZ,
                            !.investigateTimer = Lerp(4000, 7000, r)]]

\* e.position.y of a living enemy: typeDef.scale[1] / 2
SpriteY(t) ==
  IF t = "dog" THEN 525
  ELSE IF t \in {"guard", "officer"} THEN 1040
  ELSE IF t \in {"ss", "mutant"} THEN 1120
  ELSE 1390

EYE_H == 900

\* camera.position.distanceTo(e.position), squared
HitDist2(cam, e) ==
  (e.x - cam.x) * (e.x - cam.x) + (e.z - cam.z) * (e.z - cam.z)
    + (SpriteY(e.enemyType) - EYE_H) * (SpriteY(e.enemyType) - EYE_H)

\* A variant of the hit test without the "if (!e.userData.alive) continue"
\* of the loop: a dying or dead enemy can be hit again
HitCandidate_NoAliveCheck(walls, doors, cam, k, e) ==
  LET d == ISqrt(HitDist2(cam, e))
      dotD == -Sin4(k) * (e.x - cam.x) - Cos4(k) * (e.z - cam.z)
      dotThreshold == Max(920, 980 - 100000 \div (d + 1000))
  IN  /\ HitDist2(cam, e) <= 25000 * 25000
      /\ dotD * 1000 > dotThreshold * d
      /\ hasLineOfSight(walls, doors, cam.x, cam.z, e.x, e.z)

\* Whether the loop of shoot() accepts enemy e as a hit candidate: alive,
\* within 25 units, inside the aim cone of the view direction (pitch 0) and
\* in line of sight
HitCandidate(walls, doors, cam, k, e) ==
  LET d == ISqrt(HitDist2(cam, e))
      \* dir.dot(camDir) * d, camDir = (-sin yaw, 0, -cos yaw)
      dotD == -Sin4(k) * (e.x - cam.x) - Cos4(k) * (e.z - cam.z)
      dotThreshold == Max(920, 980 - 100000 \div (d + 1000))
  IN  /\ e.alive
      /\ HitDist2(cam, e) <= 25000 * 25000
      /\ dotD * 1000 > dotThreshold * d
      /\ hasLineOfSight(walls, doors, cam.x, cam.z, e.x, e.z)

\* The first of the nearest enemies among the candidates C, or 0
Nearest(cam, enemies, C) ==
  IF C = {} THEN 0
  ELSE CHOOSE i \in C :
         \A j \in C : \/ HitDist2(cam, enemies[i]) < HitDist2(cam, enemies[j])
                      \/ (HitDist2(cam, enemies[i]) = HitDist2(cam, enemies[j]) /\ i <= j)

\* closestHit of shoot(): the nearest hit candidate, or 0
ClosestHit(walls, doors, cam, k, enemies) ==
  Nearest(cam, enemies,
          {i \in DOMAIN enemies : HitCandidate(walls, doors, cam, k, enemies[i])})

\* The enemy after killEnemy(e)
killEnemy(e) ==
  [e EXCEPT !.alive = FALSE, !.aiState = AI.DYING,
            !.deathFrame = 0, !.deathFrameTimer = 120,
            !.attackPhase = "none", !.attackTimer = 0, !.attackDidFire = FALSE]

\* A variant of the drop in which the dog leaves a clip as well
DropAmmo_EvenDog(pickups, e) ==
  Append(pickups, [x |-> e.x, z |-> e.z, pickupType |-> "ammo", collected |-> FALSE])

\* The pickups after killEnemy(e): every type but the dog drops an ammo clip
DropAmmo(pickups, e) ==
  IF e.enemyType # "dog"
  THEN Append(pickups, [x |-> e.x, z |-> e.z, pickupType |-> "ammo", collected |-> FALSE])
  ELSE pickups

\* A variant of the damage in which every surviving type flinches
DamageEnemy_AllFlinch(e, cam, r) ==
  LET e1 == [e EXCEPT !.health = @ - (15 + (r * 10) \div 1000)]
  IN  IF e1.health <= 0 THEN killEnemy(e1)
      ELSE [e1 EXCEPT !.aiState = AI.PAIN, !.painTimer = Lerp(300, 500, r),
                      !.alerted = TRUE]

\* The hit enemy after the damage of a pistol shot, before any kill
DamageEnemy(e, cam, r) ==
  LET td == ENEMY_TYPES[e.enemyType]
      e1 == [e EXCEPT !.health = @ - (15 + (r * 10) \div 1000)]
  IN  IF e1.health <= 0 THEN killEnemy(e1)
      ELSE IF td.noPain
      THEN IF ~e1.alerted
           THEN [e1 EXCEPT !.alerted = TRUE, !.aiState = AI.CHASE,
                           !.lastSeenX = cam.x, !.lastSeenZ = cam.z]
           ELSE e1
      ELSE [e1 EXCEPT !.aiState = AI.PAIN, !.painTimer = Lerp(300, 500, r),
                      !.alerted = TRUE]

\* shoot(): the player fires the pistol. The shot resolves the hit (hit is
\* the enemy hit or 0, afterHit the enemies after the damage), then sounds
\* at the hit enemy (radius 15, giving afterSound1) and at the player
\* (radius 12, giving afterSound2).
Shoot(r) ==
  /\ ~(state.shootCooldown > 0 \/ state.ammo <= 0 \/ gameOver)
  /\ \E hit \in {ClosestHit(levelWalls, levelDoors, camera, yaw, levelEnemies)} :
     \E afterHit \in {IF hit = 0 THEN levelEnemies
                      ELSE [levelEnemies EXCEPT ![hit] = DamageEnemy(@, camera, r)]} :
     \E afterSound1 \in {IF hit = 0 THEN afterHit
                         ELSE alertEnemiesBySound(levelWalls, levelDoors, afterHit,
                                                  afterHit[hit].x, afterHit[hit].z,
                                                  15000, r)} :
     \E afterSound2 \in {alertEnemiesBySound(levelWalls, levelDoors, afterSound1,
                                             camera.x, camera.z, 12000, r)} :
     \E killed \in {hit # 0 /\ ~afterHit[hit].alive} :
       /\ state' = [state EXCEPT !.ammo = @ - 1,
                                 !.shootCooldown = 400,
                                 !.score = IF killed
                                           THEN @ + ENEMY_TYPES[afterHit[hit].enemyType].score
                                           ELSE @]
       /\ levelEnemies' = afterSound2
       /\ levelPickups' = IF killed THEN DropAmmo(levelPickups, afterHit[hit])
                          ELSE levelPickups
       /\ probe' = [op |-> "shoot", hit |-> hit,
                    events |-> IF hit = 0
                               THEN <<[pre |-> afterSound1, post |-> afterSound2]>>
                               ELSE <<[pre |-> afterHit, post |-> afterSound1],
                                      [pre |-> afterSound1, post |-> afterSound2]>>]
       /\ UNCHANGED <<levelWalls, levelDoors, levelStatics, camera, yaw, gameOver,
                      pathCache, pathCacheFrame,
                 pathCacheBorn>>

\* ------------------------------------------------------------------------
\* Doors
\* ------------------------------------------------------------------------
\* The body of tryOpenDoor's loop for doors i.. : a door in reach that is
\* neither open nor opening is set opening; a locked door without its key
\* raises a notification (notice) and ends the loop
RECURSIVE OpenDoorsFrom(_, _, _, _, _)
OpenDoorsFrom(doors, keys, checkX, checkZ, i) ==
  IF i > Len(doors) THEN [doors |-> doors, notice |-> "none"]
  ELSE
    LET d == doors[i]
        dx == checkX - (d.gridX * CELL + CELL \div 2)
        dz == checkZ - (d.gridY * CELL + CELL \div 2)
    IN  IF ~(Abs(dx) < CELL /\ Abs(dz) < CELL)
        THEN OpenDoorsFrom(doors, keys, checkX, checkZ, i + 1)
        ELSE IF d.open \/ (d.opening /\ ~d.closing)
        THEN OpenDoorsFrom(doors, keys, checkX, checkZ, i + 1)
        ELSE IF d.doorType = "gold" /\ ~keys.gold
        THEN [doors |-> doors, notice |-> "You need a gold key!"]
        ELSE IF d.doorType = "silver" /\ ~keys.silver
        THEN [doors |-> doors, notice |-> "You need a silver key!"]
        ELSE OpenDoorsFrom([doors EXCEPT ![i].closing = FALSE, ![i].opening = TRUE],
                           keys, checkX, checkZ, i + 1)

\* The keydown handler of KeyE: tryOpenDoor() two units ahead of the player
TryOpenDoor ==
  /\ ~gameOver
  /\ \E res \in {OpenDoorsFrom(levelDoors, state.keys,
                                camera.x - Sin4(yaw) * 2000,
                                camera.z - Cos4(yaw) * 2000, 1)} :
       /\ levelDoors' = res.doors
       /\ probe' = [op |-> "tryOpenDoor", notice |-> res.notice]
  /\ UNCHANGED <<levelWalls, levelEnemies, levelStatics, levelPickups, camera, yaw,
                 state, gameOver, pathCache, pathCacheFrame, pathCacheBorn>>

\* The mousemove handler: the player turns to heading k
MouseMove(k) ==
  /\ yaw # k
  /\ yaw' = k
  /\ probe' = NoProbe
  /\ UNCHANGED <<levelWalls, levelDoors, levelEnemies, levelStatics, levelPickups,
                 camera, state, gameOver, pathCache, pathCacheFrame,
                 pathCacheBorn>>

\* A variant of the opening animation without the Math.min(1, ...) clamp
DoorOpenStep_NoClamp(d, dt) ==
  IF d.opening /\ d.openAmount < 1000
  THEN IF d.openAmount + (dt * 3) \div 2 >= 1000
       THEN [d EXCEPT !.openAmount = @ + (dt * 3) \div 2, !.open = TRUE,
                      !.opening = FALSE, !.closeTimer = 0]
       ELSE [d EXCEPT !.openAmount = @ + (dt * 3) \div 2]
  ELSE d

\* The opening animation of door d
DoorOpenStep(d, dt) ==
  IF d.opening /\ d.openAmount < 1000
  THEN IF Min(1000, d.openAmount + (dt * 3) \div 2) >= 1000
       THEN [d EXCEPT !.openAmount = 1000, !.open = TRUE,
                      !.opening = FALSE, !.closeTimer = 0]
       ELSE [d EXCEPT !.openAmount = Min(1000, @ + (dt * 3) \div 2)]
  ELSE d

\* The closing animation of door d
DoorCloseStep(d, dt) ==
  IF d.closing /\ d.openAmount > 0
  THEN IF Max(0, d.openAmount - (dt * 3) \div 2) <= 0
       THEN [d EXCEPT !.openAmount = 0, !.closing = FALSE]
       ELSE [d EXCEPT !.openAmount = Max(0, @ - (dt * 3) \div 2)]
  ELSE d

\* A variant of the auto-close that starts the closing and keeps the open flag
DoorAutoClose_StaysOpen(d, dt, cam) ==
  IF d.open /\ ~d.closing
  THEN IF d.closeTimer + dt > 5000
          /\ ~(Cell(cam.x) = d.gridX /\ Cell(cam.z) = d.gridY)
       THEN [d EXCEPT !.closing = TRUE, !.closeTimer = 0]
       ELSE [d EXCEPT !.closeTimer = @ + dt]
  ELSE d

\* The auto-close of door d: an open door counts closeTimer up and starts to
\* close after 5 s unless the player stands in its cell
DoorAutoClose(d, dt, cam) ==
  IF d.open /\ ~d.closing
  THEN IF d.closeTimer + dt > 5000
          /\ ~(Cell(cam.x) = d.gridX /\ Cell(cam.z) = d.gridY)
       THEN [d EXCEPT !.open = FALSE, !.closing = TRUE, !.closeTimer = 0]
       ELSE [d EXCEPT !.closeTimer = @ + dt]
  ELSE d

\* One door of the door-animation loop of gameLoop
DoorStep(d, dt, cam) ==
  DoorAutoClose(DoorCloseStep(DoorOpenStep(d, dt), dt), dt, cam)

\* ------------------------------------------------------------------------
\* The game loop
\* ------------------------------------------------------------------------
\* The six isBlocked probes of one axis of the player's collision test, for
\* the candidate position (x, z) and radius 0.3
PlayerBlockedX(walls, doors, statics, x, z) ==
  \E p \in {<<300, 0>>, <<-300, 0>>, <<300, 300>>, <<-300, -300>>,
            <<300, -300>>, <<-300, 300>>} :
     isBlocked(walls, doors, statics, x + p[1], z + p[2])

PlayerBlockedZ(walls, doors, statics, x, z) ==
  \E p \in {<<0, 300>>, <<0, -300>>, <<300, 300>>, <<-300, -300>>,
            <<300, -300>>, <<-300, 300>>} :
     isBlocked(walls, doors, statics, x + p[1], z + p[2])

\* The Z axis of the player's move, after the X axis gave x1
MovePlayerZ(walls, doors, statics, x1, z, nz) ==
  [x |-> x1, z |-> IF PlayerBlockedZ(walls, doors, statics, x1, nz) THEN z ELSE nz]

\* The player's move of a frame: key is the movement key held ("none", "W",
\* "S", "A", "D"), the step is state.moveSpeed * dt, each axis is tried on
\* its own against a collision radius of 0.3
MovePlayer(walls, doors, statics, cam, k, key, dt) ==
  LET speed == 4 * dt
      mx == IF key = "W" THEN -Sin4(k) ELSE IF key = "S" THEN Sin4(k)
            ELSE IF key = "A" THEN -Cos4(k) ELSE IF key = "D" THEN Cos4(k) ELSE 0
      mz == IF key = "W" THEN -Cos4(k) ELSE IF key = "S" THEN Cos4(k)
            ELSE IF key = "A" THEN Sin4(k) ELSE IF key = "D" THEN -Sin4(k) ELSE 0
  IN  IF key = "none" THEN cam
      ELSE MovePlayerZ(walls, doors, statics,
                       IF PlayerBlockedX(walls, doors, statics, cam.x + mx * speed, cam.z)
                       THEN cam.x ELSE cam.x + mx * speed,
                       cam.z, cam.z + mz * speed)

\* The switch of checkPickups on the pickup type t: the game state after it
\* and whether the pickup was taken. state.weapon and state.lives are not
\* part of the model's state.
PickUp(st, t) ==
  LET got(s2) == [picked |-> TRUE, st |-> s2]
      left == [picked |-> FALSE, st |-> st]
  IN  CASE t = "health" ->
             IF st.health >= MAX_HEALTH THEN left
             ELSE got([st EXCEPT !.health = Min(MAX_HEALTH, @ + 25)])
        [] t = "food" ->
             IF st.health >= MAX_HEALTH THEN left
             ELSE got([st EXCEPT !.health = Min(MAX_HEALTH, @ + 4)])
        [] t = "ammo" ->
             IF st.ammo >= MAX_AMMO THEN left
             ELSE got([st EXCEPT !.ammo = Min(MAX_AMMO, @ + CLIP_AMMO)])
        [] t \in {"machinegun", "chaingun"} ->
             got([st EXCEPT !.ammo = Min(MAX_AMMO, @ + 6)])
        [] t = "key1" ->
             IF st.keys.gold THEN left ELSE got([st EXCEPT !.keys.gold = TRUE])
        [] t = "key2" ->
             IF st.keys.silver THEN left ELSE got([st EXCEPT !.keys.silver = TRUE])
        [] t = "cross" -> got([st EXCEPT !.score = @ + 100])
        [] t = "chalice" -> got([st EXCEPT !.score = @ + 500])
        [] t = "bible" -> got([st EXCEPT !.score = @ + 1000])
        [] t = "crown" -> got([st EXCEPT !.score = @ + 5000])
        [] t = "oneup" ->
             got([st EXCEPT !.health = MAX_HEALTH, !.ammo = Min(MAX_AMMO, @ + 25)])
        [] OTHER -> left

\* checkPickups() for pickups i.. : a pickup in reach that is not collected
\* goes through the switch and is marked collected if it was taken
RECURSIVE CheckPickups(_, _, _, _)
CheckPickups(pickups, st, cam, i) ==
  IF i > Len(pickups) THEN [pickups |-> pickups, st |-> st]
  ELSE
    LET p == pickups[i]
        d2 == (cam.x - p.x) * (cam.x - p.x) + (cam.z - p.z) * (cam.z - p.z)
        sw == PickUp(st, p.pickupType)
    IN  IF p.collected \/ d2 >= PICKUP_RADIUS * PICKUP_RADIUS \/ ~sw.picked
        THEN CheckPickups(pickups, st, cam, i + 1)
        ELSE CheckPickups([pickups EXCEPT ![i].collected = TRUE], sw.st, cam, i + 1)

\* A variant of gameLoop's test that never stops the simulation
Halted_Never == FALSE

\* gameLoop's test before the simulation, with the menu closed and the
\* pointer locked: if (!pointerLocked || gameOver) the frame only renders
Halted == gameOver

\* One frame of gameLoop while the game is over: the HUD, the weapon and the
\* scene are drawn and the function returns
GameOverFrame ==
  /\ Halted
  /\ probe' = [op |-> "render"]
  /\ UNCHANGED <<levelWalls, levelDoors, levelEnemies, levelStatics, levelPickups,
                 camera, yaw, state, gameOver, pathCache, pathCacheFrame,
                 pathCacheBorn>>

\* The mousedown handler while shoot() returns at its first line: the
\* cooldown runs, the ammo is spent or the game is over
ShootRefused ==
  /\ state.shootCooldown > 0 \/ state.ammo <= 0 \/ gameOver
  /\ probe' = [op |-> "mousedown"]
  /\ UNCHANGED <<levelWalls, levelDoors, levelEnemies, levelStatics, levelPickups,
                 camera, yaw, state, gameOver, pathCache, pathCacheFrame,
                 pathCacheBorn>>

\* The keydown handler of KeyE while the game is over: tryOpenDoor is not
\* called
KeyERefused ==
  /\ gameOver
  /\ probe' = [op |-> "keydown"]
  /\ UNCHANGED <<levelWalls, levelDoors, levelEnemies, levelStatics, levelPickups,
                 camera, yaw, state, gameOver, pathCache, pathCacheFrame,
                 pathCacheBorn>>

\* One frame of gameLoop with the menu closed and the pointer locked: the
\* player moves (to cam), the shoot cooldown runs, the doors animate, the
\* enemies are updated (giving w), pickups are collected (giving pk) and game
\* over is checked. The weapon is the pistol (no auto-fire) and no level
\* holds an exit tile.
Tick(dt, key, rnd) ==
  /\ ~Halted
  /\ \E cam \in {MovePlayer(levelWalls, levelDoors, levelStatics, camera, yaw, key, dt)} :
     \E w \in {updateEnemies(
                 [walls |-> levelWalls, statics |-> levelStatics, cam |-> cam,
                  yaw |-> yaw, dt |-> dt, frame |-> pathCacheFrame + 1],
                 [enemies |-> levelEnemies,
                  doors |-> [i \in DOMAIN levelDoors |-> DoorStep(levelDoors[i], dt, cam)],
                  cache |-> pathCache, born |-> pathCacheBorn,
                  health |-> state.health],
                 pathCacheFrame + 1, rnd)} :
     \E pk \in {CheckPickups(levelPickups,
                              [state EXCEPT !.health = w.health,
                                            !.shootCooldown = IF @ > 0 THEN @ - dt ELSE @],
                              cam, 1)} :
       /\ camera' = cam
       /\ levelDoors' = w.doors
       /\ levelEnemies' = w.enemies
       /\ pathCache' = w.cache
       /\ pathCacheFrame' = pathCacheFrame + 1
       /\ pathCacheBorn' = [k \in DOMAIN w.cache |-> w.born[k]]
       /\ levelPickups' = pk.pickups
       /\ state' = pk.st
       /\ gameOver' = (gameOver \/ pk.st.health <= 0)
       /\ probe' = [op |-> "tick", dt |-> dt]
       /\ UNCHANGED <<levelWalls, levelStatics, yaw>>

\* ------------------------------------------------------------------------
\* The specification
\* ------------------------------------------------------------------------
\* Inputs: frame times (ms), movement keys, headings and Math.random() draws
\* (1/1000)
DtSet == {100}
KeySet == {"none"}
YawSet == {1, 3}
RandSet == {0, 999}
ShotRand == {500}

\* Bounds of the exploration: frames run and shots fired
MaxFrames == 75
CombatFrames == 22
MaxShots == 3
ShotFrames == 1

\* The door level: the player may shoot during the first ShotFrames frames,
\* press the door key and turn at any time; the guard's draws are fixed.
Init == \E r \in ShotRand : loadLevel(4, r)

Frame ==
  /\ pathCacheFrame < MaxFrames
  /\ \E dt \in DtSet : \E key \in KeySet :
       \E rnd \in [DOMAIN levelEnemies -> ShotRand] : Tick(dt, key, rnd)

FirstShot ==
  /\ pathCacheFrame < ShotFrames
  /\ state.ammo = START_AMMO
  /\ \E r \in ShotRand : Shoot(r)

Turn == \E k \in YawSet : MouseMove(k)

Next == Frame \/ FirstShot \/ TryOpenDoor \/ Turn

Spec == Init /\ [][Next]_vars

\* The corridor levels: the player stands and fires up to MaxShots shots
\* at any time; the enemy's draws vary.
CombatInit == \E idx \in 1..3 : \E r \in RandSet : loadLevel(idx, r)

CombatFrame ==
  /\ pathCacheFrame < CombatFrames
  /\ \E dt \in DtSet : \E key \in KeySet :
       \E rnd \in [DOMAIN levelEnemies -> RandSet] : Tick(dt, key, rnd)

CombatShot ==
  /\ state.ammo > START_AMMO - MaxShots
  /\ \E r \in ShotRand : Shoot(r)

CombatNext == CombatFrame \/ CombatShot

CombatSpec == CombatInit /\ [][CombatNext]_vars

\* The death sequence under every frame time: while an enemy is DYING the
\* frames run with any dt of DeathDtSet and are scheduled fairly, as
\* requestAnimationFrame keeps calling gameLoop; before that the frames are
\* those of the combat scenario, at most DeathFrames of them
DeathDtSet == {40, 100}
DeathFrames == 12
EnemyIds == {1}

SomeDying == \E i \in DOMAIN levelEnemies : levelEnemies[i].aiState = AI.DYING

DeathInit == \E idx \in 1..3 : \E r \in ShotRand : loadLevel(idx, r)

AliveFrame ==
  /\ ~SomeDying
  /\ pathCacheFrame < DeathFrames
  /\ \E dt \in DtSet : \E key \in KeySet :
       \E rnd \in [DOMAIN levelEnemies -> ShotRand] : Tick(dt, key, rnd)

DyingFrame ==
  /\ SomeDying
  /\ \E dt \in DeathDtSet : \E key \in KeySet :
       \E rnd \in [DOMAIN levelEnemies -> ShotRand] : Tick(dt, key, rnd)

DeathShot ==
  /\ state.ammo > START_AMMO - MaxShots
  /\ \E r \in ShotRand : Shoot(r)

DeathNext == AliveFrame \/ DyingFrame \/ DeathShot

DeathSpec == DeathInit /\ [][DeathNext]_vars /\ WF_vars(DyingFrame)

\* isBlocked as a function of the door's state: on the door level the frames
\* and the player's door requests take the door through its states, and
\* isBlocked is asked at points in and around the door cell, on a
\* single-story level and with multi-story data
BlockFrames == 70
BlockPoints == {<<4000, 2000>>, <<5000, 3000>>, <<5999, 3999>>,
                <<3000, 3000>>, <<1000, 1000>>}
StorySet == {NoStory,
             [multi |-> TRUE, floorY |-> 0, cellCeil |-> 2000,
              upperWall |-> 0, targetFloor |-> 0],
             [multi |-> TRUE, floorY |-> 2000, cellCeil |-> 2000,
              upperWall |-> 1, targetFloor |-> 2000],
             [multi |-> TRUE, floorY |-> 0, cellCeil |-> 2000,
              upperWall |-> 1, targetFloor |-> 0]}

BlockInit == \E r \in ShotRand : loadLevel(4, r)

BlockFrame ==
  /\ pathCacheFrame < BlockFrames
  /\ \E dt \in DtSet : \E key \in KeySet :
       \E rnd \in [DOMAIN levelEnemies -> ShotRand] : Tick(dt, key, rnd)

BlockQuery ==
  \E p \in BlockPoints : \E ms \in StorySet :
    /\ probe' = [op |-> "isBlocked", wx |-> p[1], wz |-> p[2], multi |-> ms.multi,
                 story |-> ms,
                 result |-> isBlockedLevel(ms, levelWalls, levelDoors, levelStatics,
                                           p[1], p[2])]
    /\ UNCHANGED <<levelWalls, levelDoors, levelEnemies, levelStatics, levelPickups,
                   camera, yaw, state, gameOver, pathCache, pathCacheFrame,
                 pathCacheBorn>>

BlockNext == BlockFrame \/ TryOpenDoor \/ BlockQuery

BlockSpec == BlockInit /\ [][BlockNext]_vars

\* alertEnemiesBySound as a function of the door between source and agent:
\* on the door corridor the frames and the player's door requests move the
\* door, and a sound of any radius of SoundRadii is made at the player
SoundFrames == 16
SoundRadii == {2000, 4000, 6000, 12000}

SoundQuery ==
  \E radius \in SoundRadii : \E r \in ShotRand :
    \E post \in {alertEnemiesBySound(levelWalls, levelDoors, levelEnemies,
                                     camera.x, camera.z, radius, r)} :
      /\ levelEnemies' = post
      /\ probe' = [op |-> "sound", x |-> camera.x, z |-> camera.z,
                   radius |-> radius, pre |-> levelEnemies, post |-> post]
      /\ UNCHANGED <<levelWalls, levelDoors, levelStatics, levelPickups,
                     camera, yaw, state, gameOver, pathCache, pathCacheFrame,
                 pathCacheBorn>>

DoorSoundInit == \E r \in ShotRand : loadLevel(5, r)

DoorSoundFrame ==
  /\ pathCacheFrame < SoundFrames
  /\ \E dt \in DtSet : \E key \in KeySet :
       \E rnd \in [DOMAIN levelEnemies -> ShotRand] : Tick(dt, key, rnd)

DoorSoundNext == DoorSoundFrame \/ TryOpenDoor \/ SoundQuery

DoorSoundSpec == DoorSoundInit /\ [][DoorSoundNext]_vars

\* alertEnemiesBySound as a function of the level: on every level of the
\* maze family a sound of any radius of RingRadii is made at the player
MazeIds == 0..16383
RingRadii == {2000, 12000, 200000}

MazeInit ==
  \E m \in MazeIds : \E r \in ShotRand : Loaded(Maze(m), DoorsInPlay(Maze(m)), r)

RingSound ==
  \E radius \in RingRadii : \E r \in ShotRand :
    \E post \in {alertEnemiesBySound(levelWalls, levelDoors, levelEnemies,
                                     camera.x, camera.z, radius, r)} :
      /\ levelEnemies' = post
      /\ probe' = [op |-> "sound", x |-> camera.x, z |-> camera.z,
                   radius |-> radius, pre |-> levelEnemies, post |-> post]
      /\ UNCHANGED <<levelWalls, levelDoors, levelStatics, levelPickups,
                     camera, yaw, state, gameOver, pathCache, pathCacheFrame,
                 pathCacheBorn>>

RingNext == RingSound

RingSpec == MazeInit /\ [][RingNext]_vars

\* The first frames of a corridor level with the player walking: forward,
\* backward or not at all in each frame
SpotFrames == 5
SpotKeys == {"none", "W", "S"}

SpotFrame ==
  /\ pathCacheFrame < SpotFrames
  /\ \E dt \in DtSet : \E key \in SpotKeys :
       \E rnd \in [DOMAIN levelEnemies -> RandSet] : Tick(dt, key, rnd)

SpotNext == SpotFrame

SpotSpec == CombatInit /\ [][SpotNext]_vars

\* findPath as a function of the level: on every level of the maze family
\* one path is searched, on an empty cache, from the guard's position to the
\* centre of a cell of PathGoals: the player's corner, a side corner or the
\* middle of the room
PathGoals == {<<1, 1>>, <<1, 3>>, <<2, 2>>}

\* A call of findPath as moveEnemyToward makes it for the first enemy, from
\* its position to the centre of cell g; a stored result is marked with the
\* number of the tick last run
FindPathCall(g) ==
  \E res \in {findPath(levelWalls, levelDoors, pathCache,
                       levelEnemies[1].x, levelEnemies[1].z,
                       g[1] * CELL + CELL \div 2, g[2] * CELL + CELL \div 2)} :
    \E born \in {IF res.searched THEN (res.key :> pathCacheFrame) @@ pathCacheBorn
                 ELSE pathCacheBorn} :
      /\ pathCache' = res.cache
      /\ pathCacheBorn' = born
      /\ probe' = [op |-> "findPath",
                   sx |-> Cell(levelEnemies[1].x), sz |-> Cell(levelEnemies[1].z),
                   gx |-> g[1], gz |-> g[2], path |-> res.path,
                   searched |-> res.searched, steps |-> res.steps,
                   cost |-> res.cost,
                   born |-> IF res.key \in DOMAIN born THEN born[res.key]
                            ELSE pathCacheFrame]
      /\ UNCHANGED <<levelWalls, levelDoors, levelEnemies, levelStatics,
                     levelPickups, camera, yaw, state, gameOver, pathCacheFrame>>

PathQuery ==
  /\ pathCache = << >>
  /\ \E g \in PathGoals : FindPathCall(g)

PathNext == PathQuery

PathSpec == MazeInit /\ [][PathNext]_vars

\* findPath across level loads: a new game is started at any time on any
\* level of LoadLevels (the open room, the room whose cell (1, 3) is walled
\* in, the winding corridor), and paths are asked from the guard's position
\* to the cells of LoadGoals: the guard's own cell in the rooms, the cell
\* that is walled in, and the cells 199 and 200 moves down the corridor
LoadLevels == {Maze(0), Maze(4112), Serpent}
LoadGoals == {<<3, 3>>, <<1, 3>>, <<16, 17>>, <<17, 17>>}

LoadInit == \E lvl \in LoadLevels : \E r \in ShotRand : Loaded(lvl, LoadDoors(lvl), r)

LoadNext ==
  \/ \E lvl \in LoadLevels : \E r \in ShotRand : StartNewGame(lvl, r)
  \/ \E g \in LoadGoals : FindPathCall(g)

LoadSpec == LoadInit /\ [][LoadNext]_vars

\* The path cache over time: on the door corridor, where the guard stands
\* behind the closed door, frames run and paths are asked from the guard's
\* position to the cells of CadenceGoals between them
CadenceFrames == 31
CadenceGoals == {<<2, 1>>, <<4, 1>>}

CadenceNext ==
  \/ /\ pathCacheFrame < CadenceFrames
     /\ \E dt \in DtSet : \E key \in KeySet :
          \E rnd \in [DOMAIN levelEnemies -> ShotRand] : Tick(dt, key, rnd)
  \/ \E g \in CadenceGoals : FindPathCall(g)

CadenceSpec == DoorSoundInit /\ [][CadenceNext]_vars

\* findPath as a function of the door's animation: in the room whose only
\* way from the guard's corner to the player's corner leads through a door
\* in (2, 1), out of the guard's sight, the frames and the player's door
\* requests move the door, and while the cache is empty a path is asked from
\* the guard's position
DoorPathNext == Frame \/ TryOpenDoor \/ PathQuery

DoorPathSpec ==
  /\ \E lvl \in {Maze(2 + 16 + 64 + 1024 + 4096)} :
       \E r \in ShotRand : Loaded(lvl, LoadDoors(lvl), r)
  /\ [][DoorPathNext]_vars

\* isBlocked as a function of the level and the point: on every level of the
\* room family isBlocked is asked for points of the cells (1..2, 1..2), at
\* the cell's edges, at its centre and at 0.6 and just under 0.6 from it, for
\* points of the cells around them, and for points on either side of the grid
PropIds == 0..215
PropAxis == {c * CELL + o : c \in 1..2, o \in {0, 400, 401, 1000, 1999}}
              \cup {CELL \div 2, 3 * CELL, -1, MAP_SIZE * CELL}

PropNext ==
  \E wx \in PropAxis : \E wz \in PropAxis :
    /\ probe' = [op |-> "isBlocked", wx |-> wx, wz |-> wz, multi |-> FALSE,
                 result |-> isBlocked(levelWalls, levelDoors, levelStatics, wx, wz)]
    /\ UNCHANGED <<levelWalls, levelDoors, levelEnemies, levelStatics, levelPickups,
                   camera, yaw, state, gameOver, pathCache, pathCacheFrame,
                   pathCacheBorn>>

PropSpec ==
  /\ \E m \in PropIds : \E r \in ShotRand : Loaded(PropRoom(m), << >>, r)
  /\ [][PropNext]_vars

\* hasLineOfSight as a function of the door and the two points: on the door
\* level the frames and the player's door requests move the door, and
\* hasLineOfSight is asked for the pairs of SightPairs: points under 0.1
\* apart inside and outside the grid, pairs across the door, across open
\* cells and across a wall, a pair that ends in the door cell, and pairs
\* with an end outside the grid
SightPairs ==
  { <<3000, 3000, 3050, 3000>>, <<-50, 3000, -20, 3000>>,
    <<3000, 3000, 7000, 3000>>, <<3000, 3000, 7000, 5000>>,
    <<3000, 5000, 7000, 5000>>, <<3000, 3000, 3000, 9000>>,
    <<3000, 3000, 5000, 3000>>,
    <<1000, 3000, -1000, 3000>>, <<3000, 3000, -3000, 3000>> }

SightNext ==
  \/ Frame
  \/ TryOpenDoor
  \/ \E p \in SightPairs :
       /\ probe' = [op |-> "hasLineOfSight", x1 |-> p[1], z1 |-> p[2],
                    x2 |-> p[3], z2 |-> p[4],
                    steps |-> LosSteps(p[3] - p[1], p[4] - p[2]),
                    result |-> hasLineOfSight(levelWalls, levelDoors,
                                              p[1], p[2], p[3], p[4])]
       /\ UNCHANGED <<levelWalls, levelDoors, levelEnemies, levelStatics,
                      levelPickups, camera, yaw, state, gameOver, pathCache,
                      pathCacheFrame, pathCacheBorn>>

SightSpec == Init /\ [][SightNext]_vars

\* Locked doors: on the door level with a gold, silver or elevator door and
\* a key beside the player, the player may fire a first shot (the guard then
\* makes for the door), step sideways to the key, and press the door key
KeyFrames == 20

KeyNext ==
  \/ /\ pathCacheFrame < KeyFrames
     /\ \E dt \in DtSet : \E key \in {"none", "D"} :
          \E rnd \in [DOMAIN levelEnemies -> ShotRand] : Tick(dt, key, rnd)
  \/ FirstShot
  \/ TryOpenDoor

KeySpec ==
  /\ \E lvl \in {LockedRoom("gold", 20), LockedRoom("gold", 21),
                  LockedRoom("silver", 21), LockedRoom("silver", 20),
                  LockedRoom("elevator", 20)} :
       \E r \in ShotRand : Loaded(lvl, LoadDoors(lvl), r)
  /\ [][KeyNext]_vars

\* alertEnemiesBySound over agents in every state: on the corridor levels
\* the frames and the player's shots run as in the combat scenario for
\* EchoFrames frames, and a sound that floods one cell around the player or
\* the whole corridor is made at the player
EchoFrames == 14
EchoRadii == {2000, 12000}

EchoSound ==
  \E radius \in EchoRadii : \E r \in ShotRand :
    \E post \in {alertEnemiesBySound(levelWalls, levelDoors, levelEnemies,
                                     camera.x, camera.z, radius, r)} :
      /\ levelEnemies' = post
      /\ probe' = [op |-> "sound", x |-> camera.x, z |-> camera.z,
                   radius |-> radius, pre |-> levelEnemies, post |-> post]
      /\ UNCHANGED <<levelWalls, levelDoors, levelStatics, levelPickups,
                     camera, yaw, state, gameOver, pathCache, pathCacheFrame,
                     pathCacheBorn>>

EchoNext ==
  \/ pathCacheFrame < EchoFrames /\ CombatFrame
  \/ CombatShot
  \/ EchoSound

EchoSpec == CombatInit /\ [][EchoNext]_vars

\* Pursuit out of sight: on the door corridor with a gold door, its key in
\* the player's cell and a green barrel between the door and the guard, the
\* player may ask for the door during the first PursuitFrames frames; the
\* door closes by itself, and the guard can neither pass the barrel nor
\* open the door. Frames run without a bound while the guard is neither idle nor dead,
\* and are scheduled fairly, as requestAnimationFrame keeps calling gameLoop
PursuitFrames == 20

GoldCorridor ==
  [LEVELS[5] EXCEPT !.doors = << [x |-> 3, y |-> 1, type |-> "gold"] >>,
                    !.statics = << [x |-> 2, y |-> 1, exit |-> FALSE, type |-> 20],
                                   [x |-> 4, y |-> 1, exit |-> FALSE, type |-> 1] >>]

Pursuing ==
  \E i \in DOMAIN levelEnemies :
    levelEnemies[i].aiState \notin {AI.STAND, AI.PATROL, AI.DYING, AI.DEAD}

PursuitInit == \E r \in ShotRand : Loaded(GoldCorridor, LoadDoors(GoldCorridor), r)

IdleFrame ==
  /\ ~Pursuing
  /\ pathCacheFrame < PursuitFrames
  /\ \E dt \in DtSet : \E key \in KeySet :
       \E rnd \in [DOMAIN levelEnemies -> ShotRand] : Tick(dt, key, rnd)

PursuitFrame ==
  /\ Pursuing
  /\ \E dt \in DtSet : \E key \in KeySet :
       \E rnd \in [DOMAIN levelEnemies -> ShotRand] : Tick(dt, key, rnd)

PursuitOpen == pathCacheFrame < PursuitFrames /\ TryOpenDoor

PursuitNext == IdleFrame \/ PursuitFrame \/ PursuitOpen

\* Weak fairness of PursuitFrame, written with its enabling condition: a
\* frame can run exactly when the guard pursues and the game is not over
PursuitFair ==
  \/ []<>(~Pursuing \/ gameOver)
  \/ []<><<PursuitFrame>>_vars

PursuitSpec == PursuitInit /\ [][PursuitNext]_vars /\ PursuitFair

\* Enemies at doors: the door level with a guard or a dog behind a normal
\* door, and with a guard behind a gold door; the player may fire in the
\* first frame and ask for the door at any time
KennelFrames == 40

KennelLevels ==
  {LEVELS[4],
   [LEVELS[4] EXCEPT !.enemies = << [x |-> 3, y |-> 1, type |-> "dog",
                                     patrol |-> FALSE, dir |-> 3] >>],
   LockedRoom("gold", 20)}

KennelNext ==
  \/ /\ pathCacheFrame < KennelFrames
     /\ \E dt \in DtSet : \E key \in KeySet :
          \E rnd \in [DOMAIN levelEnemies -> ShotRand] : Tick(dt, key, rnd)
  \/ FirstShot
  \/ TryOpenDoor

KennelSpec ==
  /\ \E lvl \in KennelLevels : \E r \in ShotRand : Loaded(lvl, LoadDoors(lvl), r)
  /\ [][KennelNext]_vars

\* Spotting the player from STAND and from PATROL: on the door corridor a
\* guard or a mutant stands and patrols behind the door until the player,
\* at any time, asks for the door
SilentFrames == 45

SilentLevels ==
  {LEVELS[5],
   [LEVELS[5] EXCEPT !.enemies = << [x |-> 5, y |-> 1, type |-> "mutant",
                                     patrol |-> FALSE, dir |-> 3] >>]}

SilentNext ==
  \/ /\ pathCacheFrame < SilentFrames
     /\ \E dt \in DtSet : \E key \in KeySet :
          \E rnd \in [DOMAIN levelEnemies -> ShotRand] : Tick(dt, key, rnd)
  \/ TryOpenDoor

SilentSpec ==
  /\ \E lvl \in SilentLevels : \E r \in ShotRand : Loaded(lvl, LoadDoors(lvl), r)
  /\ [][SilentNext]_vars

\* Hits and the pain reaction: the player stands in the corridor facing a
\* boss or a guard and fires up to MaxShots shots at any time
PainFrames == 14

PainLevels == {Corridor("boss"), Corridor("guard")}

PainFrame ==
  /\ pathCacheFrame < PainFrames
  /\ \E dt \in DtSet : \E key \in KeySet :
       \E rnd \in [DOMAIN levelEnemies -> ShotRand] : Tick(dt, key, rnd)

PainNext == PainFrame \/ CombatShot

PainSpec ==
  /\ \E lvl \in PainLevels : \E r \in ShotRand : Loaded(lvl, LoadDoors(lvl), r)
  /\ [][PainNext]_vars

\* Kills and what they leave: a corridor without pickups holding two
\* enemies in a row, a dog or a guard in front of a guard; the player
\* stands or walks forward and fires up to LootShots shots at any time
LootFrames == 14
LootShots == 4

Pack(front) ==
  [LEVELS[5] EXCEPT !.doors = << >>,
                    !.enemies = << [x |-> 3, y |-> 1, type |-> front,
                                    patrol |-> FALSE, dir |-> 3],
                                   [x |-> 5, y |-> 1, type |-> "guard",
                                    patrol |-> FALSE, dir |-> 3] >>,
                    !.spawnX = 1]

LootFrame ==
  /\ pathCacheFrame < LootFrames
  /\ \E dt \in DtSet : \E key \in {"none", "W"} :
       \E rnd \in [DOMAIN levelEnemies -> ShotRand] : Tick(dt, key, rnd)

LootShot ==
  /\ state.ammo > START_AMMO - LootShots
  /\ \E r \in ShotRand : Shoot(r)

LootNext == LootFrame \/ LootShot

LootSpec ==
  /\ \E front \in {"dog", "guard"} : \E r \in ShotRand :
       Loaded(Pack(front), LoadDoors(Pack(front)), r)
  /\ [][LootNext]_vars

\* The path cache against moving doors: on the door level, with its passage
\* around the door, frames run, the player asks for the door and paths are
\* asked from the guard's position to the cells of StaleGoals, the player's
\* cell, the cell beside it and a cell of the outer wall, at any time
StaleFrames == 9
StaleGoals == {<<1, 1>>, <<1, 2>>, <<4, 1>>}

StaleNext ==
  \/ /\ pathCacheFrame < StaleFrames
     /\ \E dt \in DtSet : \E key \in KeySet :
          \E rnd \in [DOMAIN levelEnemies -> ShotRand] : Tick(dt, key, rnd)
  \/ TryOpenDoor
  \/ \E g \in StaleGoals : FindPathCall(g)

StaleSpec == Init /\ [][StaleNext]_vars

\* A load that fails: on the door level frames run and the player asks for
\* the door, and at any time loadLevel is called with an index that has no
\* level data; nothing runs on the level after that
AbortNext ==
  \/ levelWalls # NoWalls /\ Frame
  \/ levelWalls # NoWalls /\ TryOpenDoor
  \/ LoadMissing

AbortSpec == Init /\ [][AbortNext]_vars

\* Death: the door level entered through nextLevel by a player whom the
\* level before has left with a health of WoundedHealths (nextLevel resets
\* the keys and keeps health, ammo and score). Frames run, the player fires
\* the first shot, asks for the door and turns; once the game is over the
\* frames only render, the fire and door keys are refused, and the death
\* menu starts the level again
WoundedHealths == {5, 12}

FatalInit ==
  \E h \in WoundedHealths : \E r \in ShotRand :
    /\ levelWalls = LoadWalls(LEVELS[4])
    /\ levelDoors = LoadDoors(LEVELS[4])
    /\ levelEnemies = LoadEnemies(LEVELS[4], r)
    /\ levelStatics = LoadStatics(LEVELS[4])
    /\ levelPickups = LoadPickups(LEVELS[4])
    /\ camera = [x |-> LEVELS[4].spawnX * CELL + CELL \div 2,
                 z |-> LEVELS[4].spawnY * CELL + CELL \div 2]
    /\ yaw = SpawnYaw(LEVELS[4])
    /\ state = [health |-> h, ammo |-> START_AMMO, score |-> 0,
                shootCooldown |-> 0,
                keys |-> [gold |-> FALSE, silver |-> FALSE]]
    /\ gameOver = FALSE
    /\ pathCache = << >>
    /\ pathCacheFrame = 0
    /\ pathCacheBorn = << >>
    /\ probe = NoProbe

FatalNext ==
  \/ Frame
  \/ FirstShot
  \/ TryOpenDoor
  \/ Turn
  \/ GameOverFrame
  \/ gameOver /\ ShootRefused
  \/ KeyERefused
  \/ gameOver /\ \E r \in ShotRand : StartNewGame(LEVELS[4], r)

FatalSpec == FatalInit /\ [][FatalNext]_vars

\* ------------------------------------------------------------------------
\* Properties
\* ------------------------------------------------------------------------
\* Enemy i keeps its state and investigate target across sound event ev
KeepsPursuit(ev, i) ==
  /\ ev.post[i].aiState = ev.pre[i].aiState
  /\ ev.post[i].investigateX = ev.pre[i].investigateX
  /\ ev.post[i].investigateZ = ev.pre[i].investigateZ

\* C1: every sound event of a shot leaves each enemy that is in CHASE,
\* ATTACK, DODGE or PAIN when the event starts in the same aiState and with
\* the same investigate target, and the enemies after the shot are those
\* after its last sound event.
C1_EngagedKeepPursuit ==
  probe.op = "shoot" =>
    /\ \A k \in DOMAIN probe.events : \A i \in DOMAIN probe.events[k].pre :
         probe.events[k].pre[i].aiState \in Engaged => KeepsPursuit(probe.events[k], i)
    /\ levelEnemies = probe.events[Len(probe.events)].post

\* C1 witness: a shot whose sound at the player floods the cell of a living
\* enemy that is in CHASE, ATTACK, DODGE or PAIN
C1_Witness ==
  /\ probe.op = "shoot"
  /\ \E i \in DOMAIN levelEnemies :
       LET pre == probe.events[Len(probe.events)].pre[i]
       IN  /\ pre.alive
           /\ pre.aiState \in Engaged
           /\ Cell(pre.x) * MAP_SIZE + Cell(pre.z)
                \in alertedCells(levelWalls, levelDoors, camera.x, camera.z, 12000)


\* The attack cycle of enemy i ends in this step
LeftAttack(i) ==
  /\ levelEnemies[i].aiState = AI.ATTACK
  /\ levelEnemies'[i].aiState # AI.ATTACK

DeathStepOk(i) ==
  LET e == levelEnemies[i]
      e2 == levelEnemies'[i]
      last == getEnemyDeathFrames(e) - 1
  IN  /\ (e.aiState # AI.DYING /\ e2.aiState = AI.DYING)
           => (e2.deathFrame = 0 /\ e2.deathFrameTimer = 120)
      /\ (e.aiState = AI.DYING /\ probe'.op = "tick")
           => IF e.deathFrameTimer - probe'.dt > 0
              THEN /\ e2.aiState = AI.DYING
                   /\ e2.deathFrame = e.deathFrame
                   /\ e2.deathFrameTimer = e.deathFrameTimer - probe'.dt
              ELSE IF e.deathFrame < last
              THEN /\ e2.aiState = AI.DYING
                   /\ e2.deathFrame = e.deathFrame + 1
                   /\ e2.deathFrameTimer = 120
              ELSE /\ e2.aiState = AI.DEAD
                   /\ e2.deathFrame = last
      /\ (e.aiState = AI.DYING /\ probe'.op # "tick")
           => (e2.aiState = AI.DYING /\ e2.deathFrame = e.deathFrame
                 /\ e2.deathFrameTimer = e.deathFrameTimer)
      /\ e2.aiState = AI.DYING => (e2.deathFrame \in 0..last /\ e2.deathFrameTimer > 0)
      /\ e2.aiState = AI.DEAD => (e.aiState \in {AI.DYING, AI.DEAD} /\ e2.deathFrame = last)
      /\ e.aiState = AI.DEAD => e2.aiState = AI.DEAD

\* C3: after killEnemy an agent in DYING always reaches DEAD under repeated
\* ticks with dt > 0, and before that shows the death frames 0..N-1 in order
\* (N = 5, for the dog 4), each held until its 0.12 s timer has run out, none
\* skipped or repeated
C3_DeathSequenceTerminates ==
  /\ [][\A i \in DOMAIN levelEnemies : DeathStepOk(i)]_vars
  /\ \A i \in EnemyIds :
       (i \in DOMAIN levelEnemies /\ levelEnemies[i].aiState = AI.DYING)
         ~> (levelEnemies[i].aiState = AI.DEAD)

\* An agent has gone through its death sequence: DEAD after a tick, on its
\* last death frame
C3_Witness ==
  /\ probe.op = "tick"
  /\ \E i \in DOMAIN levelEnemies :
       /\ levelEnemies[i].aiState = AI.DEAD
       /\ levelEnemies[i].deathFrame = getEnemyDeathFrames(levelEnemies[i]) - 1


\* The enemies whose health a step brings to <= 0
NewlyKilled ==
  {i \in DOMAIN levelEnemies : levelEnemies[i].health > 0 /\ levelEnemies'[i].health <= 0}

\* The score a step credits for the enemies in K
ScoreOf(K) == IF K = {} THEN 0 ELSE ENEMY_TYPES[levelEnemies[CHOOSE i \in K : TRUE].enemyType].score

\* The ammo clips a step drops for the enemies in K
DropsOf(K) == Cardinality({i \in K : levelEnemies[i].enemyType # "dog"})

\* C4: once an agent's health is <= 0, a player shot with its two sound
\* events changes nothing of it (no second killEnemy, deathFrame and its
\* timer not reset); the shot credits score and drops a clip only for an
\* agent it has just brought to health <= 0
C4_DeathIsIdempotent ==
  [][probe'.op = "shoot" =>
       /\ \A i \in DOMAIN levelEnemies :
            levelEnemies[i].health <= 0
              => /\ levelEnemies'[i] = levelEnemies[i]
                 /\ \A k \in DOMAIN probe'.events :
                      /\ probe'.events[k].pre[i] = levelEnemies[i]
                      /\ probe'.events[k].post[i] = levelEnemies[i]
       /\ Cardinality(NewlyKilled) <= 1
       /\ state'.score = state.score + ScoreOf(NewlyKilled)
       /\ Len(levelPickups') = Len(levelPickups) + DropsOf(NewlyKilled)
       /\ \A j \in DOMAIN levelPickups : levelPickups'[j] = levelPickups[j]]_vars

\* A shot has been fired at an agent that was already DYING or DEAD
C4_Witness ==
  /\ probe.op = "shoot"
  /\ probe.hit = 0
  /\ \E i \in DOMAIN levelEnemies :
       /\ levelEnemies[i].health <= 0
       /\ levelEnemies[i].aiState \in {AI.DYING, AI.DEAD}
       /\ LET dotD == -Sin4(yaw) * (levelEnemies[i].x - camera.x)
                        - Cos4(yaw) * (levelEnemies[i].z - camera.z)
          IN  dotD > 0


\* C5: in every reachable state every door has not both its opening and its
\* closing flag set, and 0 <= openAmount <= 1, whatever the interleaving of
\* tryOpenDoor, enemyTryOpenDoor and the door animation of the frames
C5_DoorInvariant ==
  \A i \in DOMAIN levelDoors :
    /\ ~(levelDoors[i].opening /\ levelDoors[i].closing)
    /\ 0 <= levelDoors[i].openAmount
    /\ levelDoors[i].openAmount <= 1000

\* A door that was opened and has come open is on its way back: closing,
\* partly open
C5_Witness ==
  \E i \in DOMAIN levelDoors :
    /\ levelDoors[i].closing
    /\ 0 < levelDoors[i].openAmount
    /\ levelDoors[i].openAmount < 1000


\* The door of the cell isBlocked was last asked about, or 0
ProbedDoor == getDoorAt(levelWalls, levelDoors, Cell(probe.wx), Cell(probe.wz))

\* C6: for a point inside a door cell isBlocked returns true exactly when the
\* door's openAmount < 0.8 and false exactly when openAmount >= 0.8, whatever
\* the door's open, opening and closing flags
C6_DoorCellBlocking ==
  (probe.op = "isBlocked" /\ ProbedDoor # 0)
    => (probe.result <=> levelDoors[ProbedDoor].openAmount < 800)

\* isBlocked has answered "not blocked" for a door cell whose door is passable
\* by its openAmount while its open flag is not set
C6_Witness ==
  /\ probe.op = "isBlocked"
  /\ ProbedDoor # 0
  /\ ~probe.result
  /\ ~levelDoors[ProbedDoor].open
  /\ levelDoors[ProbedDoor].openAmount >= 800


\* Cells as x * MAP_SIZE + z. A cell lets sound in when it is inside the grid
\* and no solid wall, and not one of the cells of avoid
CellX(k) == k \div MAP_SIZE
CellZ(k) == k % MAP_SIZE
NoWall(k) == InGrid(CellX(k), CellZ(k)) /\ WallAt(levelWalls, CellX(k), CellZ(k)) <= 0
Adjacent(j, k) ==
  Abs(CellX(j) - CellX(k)) + Abs(CellZ(j) - CellZ(k)) = 1
LevelCells == {(idx % MAP_SIZE) * MAP_SIZE + idx \div MAP_SIZE : idx \in DOMAIN levelWalls}

\* The cells within n hops of the cells S along 4-connected routes over cells
\* without a solid wall that avoid the cells of avoid
RECURSIVE Within(_, _, _)
Within(S, avoid, n) ==
  IF n = 0 THEN S
  ELSE LET T == S \cup {k \in LevelCells \ avoid :
                          NoWall(k) /\ \E j \in S : Adjacent(j, k)}
       IN  IF T = S THEN S ELSE Within(T, avoid, n - 1)

\* Every cell connected to S by such routes
Connected(S, avoid) == Within(S, avoid, Cardinality(LevelCells))

DoorCell(d) == d.gridX * MAP_SIZE + d.gridY
QuietDoors == {DoorCell(levelDoors[i]) : i \in {j \in DOMAIN levelDoors : levelDoors[j].openAmount < 300}}
SourceCell == Cell(probe.x) * MAP_SIZE + Cell(probe.z)
AgentCell(e) == Cell(e.x) * MAP_SIZE + Cell(e.z)
Idle(e) == e.alive /\ e.aiState \in {AI.STAND, AI.PATROL}

\* Door d lies on every route from the sound's source to agent e
OnlyThrough(d, e) ==
  /\ DoorCell(d) # SourceCell
  /\ DoorCell(d) # AgentCell(e)
  /\ AgentCell(e) \in Connected({SourceCell}, {})
  /\ AgentCell(e) \notin Connected({SourceCell}, {DoorCell(d)})

Alerted(e2) ==
  /\ e2.aiState = AI.INVESTIGATE
  /\ e2.alerted
  /\ e2.investigateX = probe.x
  /\ e2.investigateZ = probe.z

SeenInTick(e) ==
  /\ Dist(camera'.x - e.x, camera'.z - e.z) < ENEMY_TYPES[e.enemyType].alertDist
  /\ hasLineOfSight(levelWalls, levelDoors', e.x, e.z, camera'.x, camera'.z)

\* C9: a non-silent agent in STAND that sees the player in a tick (within
\* alertDist, line of sight) is in ALERT at the end of that tick; an agent in
\* ALERT stays there while its alert timer is above 0 after the tick's dt
\* and goes to CHASE in the first tick that brings the timer to <= 0, with
\* lastSeenX/lastSeenZ set to the player's position of that tick
C9_SpotAlertChase ==
  [][probe'.op = "tick" =>
       \A i \in DOMAIN levelEnemies :
         LET e == levelEnemies[i]
             e2 == levelEnemies'[i]
         IN  /\ (/\ e.alive /\ e.aiState = AI.STAND
                 /\ ~ENEMY_TYPES[e.enemyType].silent
                 /\ SeenInTick(e))
                  => (e2.aiState = AI.ALERT /\ e2.alertTimer > 0)
             /\ (e.alive /\ e.aiState = AI.ALERT)
                  => IF e.alertTimer - probe'.dt <= 0
                     THEN /\ e2.aiState = AI.CHASE
                          /\ e2.lastSeenX = camera'.x
                          /\ e2.lastSeenZ = camera'.z
                     ELSE /\ e2.aiState = AI.ALERT
                          /\ e2.alertTimer = e.alertTimer - probe'.dt]_vars

\* An agent that stood, saw the player and was alert for more than one tick
\* has gone to CHASE in a tick in which the player had moved on from the
\* level's spawn point
C9_Witness ==
  /\ probe.op = "tick"
  /\ pathCacheFrame >= 3
  /\ \E i \in DOMAIN levelEnemies :
       /\ levelEnemies[i].aiState = AI.CHASE
       /\ levelEnemies[i].alertTimer <= 0
       /\ levelEnemies[i].alertTimer > -100
       /\ levelEnemies[i].lastSeenX = camera.x
       /\ levelEnemies[i].lastSeenZ = camera.z
       /\ camera.x # 3000


\* The cost of entering cell k: 3 for the cell of a door whose open flag is
\* not set, else 1
EnterCost(k) ==
  LET d == getDoorAt(levelWalls, levelDoors, CellX(k), CellZ(k))
  IN  IF d # 0 /\ ~levelDoors[d].open THEN 3 ELSE 1

RECURSIVE SumCost(_, _)
SumCost(path, n) ==
  IF n = 0 THEN 0
  ELSE SumCost(path, n - 1) + EnterCost(path[n].x * MAP_SIZE + path[n].z)

\* The cost of a path: 1 per cell entered, 3 per closed-door cell entered
PathCost(path) == SumCost(path, Len(path))

ClosedDoorsOn(path) ==
  Cardinality({n \in DOMAIN path :
                 EnterCost(path[n].x * MAP_SIZE + path[n].z) = 3})

Manhattan == Abs(probe.gx - probe.sx) + Abs(probe.gz - probe.sz)

\* No cost (the cell is not reached): more than any route costs
NoRoute == 3 * MAP_SIZE * MAP_SIZE

\* The least cost of a route from the cells with dist below NoRoute to every
\* cell of DOMAIN dist (the cells without a solid wall), by relaxing every
\* cell until nothing changes
RECURSIVE Settle(_)
Settle(dist) ==
  LET next == [k \in DOMAIN dist |->
                 LET via == {dist[j] + EnterCost(k) :
                               j \in {k + MAP_SIZE, k - MAP_SIZE, k + 1, k - 1}
                                       \cap DOMAIN dist}
                              \cup {dist[k]}
                 IN  CHOOSE c \in via : \A c2 \in via : c <= c2]
  IN  IF next = dist THEN dist ELSE Settle(next)

\* The least cost of a 4-connected route over cells without a solid wall from
\* cell s to cell g, or NoRoute and more
MinCost(s, g) ==
  IF ~NoWall(g) THEN NoRoute
  ELSE Settle([k \in {c \in LevelCells : NoWall(c)} |->
                 IF k = s THEN 0 ELSE NoRoute])[g]

\* path is a 4-connected route over cells without a solid wall that leaves
\* cell s and ends in cell g
IsRoute(path, s, g) ==
  /\ Len(path) > 0
  /\ Adjacent(s, path[1].x * MAP_SIZE + path[1].z)
  /\ path[Len(path)].x * MAP_SIZE + path[Len(path)].z = g
  /\ \A n \in DOMAIN path : NoWall(path[n].x * MAP_SIZE + path[n].z)
  /\ \A n \in 1..(Len(path) - 1) :
       Adjacent(path[n].x * MAP_SIZE + path[n].z,
                path[n + 1].x * MAP_SIZE + path[n + 1].z)

\* C10 as stated: the cost of every path findPath returns is at most the
\* Manhattan distance from the start cell to the goal cell plus 2 times the
\* number of closed doors on the path
C10_CostWithinManhattan ==
  (probe.op = "findPath" /\ probe.path # << >>)
    => PathCost(probe.path) <= Manhattan + 2 * ClosedDoorsOn(probe.path)

\* C10 amended: every path that findPath computes is a 4-connected route over
\* cells without a solid wall from the start cell to the goal cell; its cost
\* is its length plus 2 times the closed doors on it and is the least cost
\* of all such routes, so never below the Manhattan distance; and findPath
\* returns no path only between cells that no such route joins
C10_PathIsCheapestRoute ==
  probe.op = "findPath" =>
    LET s == probe.sx * MAP_SIZE + probe.sz
        g == probe.gx * MAP_SIZE + probe.gz
    IN  IF probe.path # << >>
        THEN /\ IsRoute(probe.path, s, g)
             /\ PathCost(probe.path)
                  = Len(probe.path) + 2 * ClosedDoorsOn(probe.path)
             /\ PathCost(probe.path) = MinCost(s, g)
             /\ PathCost(probe.path) >= Manhattan
        ELSE MinCost(s, g) >= NoRoute

\* findPath has returned a path that walls force off the direct way: it is
\* longer than the Manhattan distance
C10_Witness ==
  /\ probe.op = "findPath"
  /\ probe.path # << >>
  /\ Len(probe.path) > Manhattan
  /\ ClosedDoorsOn(probe.path) > 0


\* C11 as stated: every findPath call ends after at most 200 iterations of
\* its loop; it returns no path when the start and the goal are the same
\* cell and when no 4-connected route over cells without a solid wall joins
\* them in the level that is loaded; and a path that a search returns ends
\* in the goal cell, which the search reached within its budget
C11_NullWithoutRoute ==
  probe.op = "findPath" =>
    LET s == probe.sx * MAP_SIZE + probe.sz
        g == probe.gx * MAP_SIZE + probe.gz
        last == probe.path[Len(probe.path)]
    IN  /\ probe.steps <= MaxSteps
        /\ s = g => probe.path = << >>
        /\ probe.path # << >> =>
             \/ IsRoute(probe.path, s, g)
             \/ MinCost(s, g) < NoRoute
        /\ (probe.searched /\ probe.path # << >>) =>
             last.x * MAP_SIZE + last.z = g


\* C12 as stated (its first part): when the four neighbours of the goal cell
\* are solid wall cells of the loaded level, a findPath query from another
\* cell to that goal returns no path
C12_EnclosedGoalGivesNull ==
  (/\ probe.op = "findPath"
   /\ <<probe.sx, probe.sz>> # <<probe.gx, probe.gz>>
   /\ \A k \in DOMAIN Dirs :
        WallAt(levelWalls, probe.gx + Dirs[k][1], probe.gz + Dirs[k][2]) > 0)
    => probe.path = << >>


\* C17 as stated: right after a level load the wall grid, the doors, the
\* enemies, the statics and the pickups are those of the level loaded, and
\* every entry of the path cache is the result of a search on that level
C17_LoadLeavesNothingBehind ==
  probe.op = "load" =>
    /\ levelWalls = LoadWalls(probe.level)
    /\ levelDoors = LoadDoors(probe.level)
    /\ levelEnemies = LoadEnemies(probe.level, probe.r)
    /\ levelStatics = LoadStatics(probe.level)
    /\ levelPickups = LoadPickups(probe.level)
    /\ \A k \in DOMAIN pathCache :
         pathCache[k] = SearchPath(levelWalls, levelDoors,
                                   k[1], k[2], k[3], k[4]).path


\* C18: every 15th updateEnemies call leaves in the path cache only what the
\* call itself stored, and a findPath query answered from the cache is
\* answered with a result stored fewer than 15 calls before
C18_CacheLivesUnder15Ticks ==
  [][/\ (probe'.op = "tick" /\ pathCacheFrame' % 15 = 0) =>
          \A k \in DOMAIN pathCache' : pathCacheBorn'[k] = pathCacheFrame'
     /\ (probe'.op = "findPath" /\ ~probe'.searched) =>
          /\ probe'.born \in 0..pathCacheFrame'
          /\ pathCacheFrame' - probe'.born < 15]_vars

\* A query is answered from the cache with a result stored 14 calls before,
\* after the cache has been cleared once
C18_Witness ==
  /\ probe.op = "findPath"
  /\ ~probe.searched
  /\ probe.path # << >>
  /\ probe.born = 15
  /\ pathCacheFrame = 29


\* The number of cells of the path findPath returned that hold a door of S
PathDoors(S) ==
  Cardinality({n \in DOMAIN probe.path :
                 \E i \in S : /\ levelDoors[i].gridX = probe.path[n].x
                              /\ levelDoors[i].gridY = probe.path[n].z})

C13_BlockedByWallOrStatic ==
  (probe.op = "isBlocked" /\ ~probe.multi /\ InGrid(Cell(probe.wx), Cell(probe.wz))) =>
    LET code == WallAt(levelWalls, Cell(probe.wx), Cell(probe.wz))
        held == {i \in DOMAIN levelStatics :
                   /\ levelStatics[i].blocking
                   /\ Cell(levelStatics[i].x) = Cell(probe.wx)
                   /\ Cell(levelStatics[i].z) = Cell(probe.wz)}
    IN  /\ code > 0 => probe.result
        /\ (code = 0 /\ held = {}) => ~probe.result

\* isBlocked has been asked for the point of an open cell that is nearest to
\* the barrel in the cell next to it, and has answered false
C13_Witness ==
  /\ probe.op = "isBlocked"
  /\ ~probe.result
  /\ probe.wx = 3 * CELL
  /\ probe.wz = 2 * CELL + CELL \div 2
  /\ WallAt(levelWalls, 3, 2) = 0
  /\ \E i \in DOMAIN levelStatics :
       /\ levelStatics[i].blocking
       /\ Cell(levelStatics[i].x) = 2
       /\ Cell(levelStatics[i].z) = 2


\* The cells of the samples of the probed sight line that lie neither in the
\* start cell nor in the end cell
SightSamples ==
  {c \in {<<Cell(probe.x1 + ((probe.x2 - probe.x1) * i) \div probe.steps),
            Cell(probe.z1 + ((probe.z2 - probe.z1) * i) \div probe.steps)>> :
            i \in 1..(probe.steps - 1)} :
     /\ c # <<Cell(probe.x1), Cell(probe.z1)>>
     /\ c # <<Cell(probe.x2), Cell(probe.z2)>>}

\* Cell c stops a sight line: it lies outside the grid, is a solid wall, or
\* is a door cell whose door has openAmount < 0.8
StopsSight(c) ==
  \/ ~InGrid(c[1], c[2])
  \/ WallAt(levelWalls, c[1], c[2]) > 0
  \/ \E i \in DOMAIN levelDoors :
       /\ levelDoors[i].gridX = c[1] /\ levelDoors[i].gridY = c[2]
       /\ levelDoors[i].openAmount < DOOR_PASSABLE_OPEN

\* C14: hasLineOfSight is true for two points less than 0.1 apart; for other
\* points its samples are at most 0.4 apart, and it is false exactly when a
\* sample outside the start cell and the end cell falls in a solid wall
\* cell, outside the grid, or in a door cell with openAmount < 0.8
C14_SightBySamples ==
  probe.op = "hasLineOfSight" =>
    LET d2 == (probe.x2 - probe.x1) * (probe.x2 - probe.x1)
                + (probe.z2 - probe.z1) * (probe.z2 - probe.z1)
    IN  IF d2 < 100 * 100 THEN probe.result
        ELSE /\ (probe.steps * 400) * (probe.steps * 400) >= d2
             /\ probe.result = ~(\E c \in SightSamples : StopsSight(c))

\* hasLineOfSight has answered true across the cell of a door that is
\* opening, past 0.8 and short of open
C14_Witness ==
  /\ probe.op = "hasLineOfSight"
  /\ probe.result
  /\ \E i \in DOMAIN levelDoors :
       /\ <<levelDoors[i].gridX, levelDoors[i].gridY>> \in SightSamples
       /\ levelDoors[i].openAmount >= DOOR_PASSABLE_OPEN
       /\ ~levelDoors[i].open

\* C15 as stated: isBlocked is true for every point outside the grid, and
\* hasLineOfSight is false whenever one of its two points lies outside the
\* grid
C15_OutsideGridIsNegative ==
  /\ (probe.op = "isBlocked" /\ ~InGrid(Cell(probe.wx), Cell(probe.wz)))
       => probe.result
  /\ (/\ probe.op = "hasLineOfSight"
      /\ \/ ~InGrid(Cell(probe.x1), Cell(probe.z1))
         \/ ~InGrid(Cell(probe.x2), Cell(probe.z2)))
       => ~probe.result


\* The player holds the key of door d (a gold or silver door)
HoldsKeyOf(keys, d) ==
  IF d.doorType = "gold" THEN keys.gold ELSE keys.silver

\* Door d is within tryOpenDoor's reach of the player
InReach(d) ==
  /\ Abs(camera.x - Sin4(yaw) * 2000 - (d.gridX * CELL + CELL \div 2)) < CELL
  /\ Abs(camera.z - Cos4(yaw) * 2000 - (d.gridY * CELL + CELL \div 2)) < CELL

\* C16: a gold or silver door is changed only by a player request made while
\* the matching key is held and by the frames' door animation, so it is
\* closed and at rest as long as the key is not held; a request at such a
\* door without the key changes no field of any door and raises a
\* notification; and in every frame a gold, silver or elevator door changes
\* by the door animation alone, whatever the enemies do
C16_LockedDoorsNeedKey ==
  [][\A i \in DOMAIN levelDoors :
       LET d == levelDoors[i]
       IN  /\ (d.doorType \in {"gold", "silver", "elevator"} /\ probe'.op = "tick")
                => levelDoors'[i] = DoorStep(d, probe'.dt, camera')
           /\ (d.doorType \in {"gold", "silver"} /\ probe'.op # "tick"
                 /\ ~(probe'.op = "tryOpenDoor" /\ HoldsKeyOf(state.keys, d)))
                => levelDoors'[i] = d
           /\ (d.doorType \in {"gold", "silver"} /\ probe'.op = "tryOpenDoor"
                 /\ ~HoldsKeyOf(state.keys, d) /\ InReach(d))
                => /\ levelDoors' = levelDoors
                   /\ probe'.notice # "none"
           /\ (d.doorType \in {"gold", "silver"} /\ ~HoldsKeyOf(state'.keys, d))
                => /\ levelDoors'[i].openAmount = 0
                   /\ ~levelDoors'[i].opening
                   /\ ~levelDoors'[i].open
                   /\ ~levelDoors'[i].closing]_vars

\* The guard has heard the shot and makes for the gold door, the player has
\* fetched the gold key, and the player's request has set the door opening
C16_Witness ==
  /\ probe.op = "tryOpenDoor"
  /\ probe.notice = "none"
  /\ state.keys.gold
  /\ \E i \in DOMAIN levelDoors :
       levelDoors[i].doorType = "gold" /\ levelDoors[i].opening
  /\ \E i \in DOMAIN levelEnemies : levelEnemies[i].aiState = AI.INVESTIGATE


\* C20: in every step the enemy list keeps its agents; an agent that is
\* DYING is DYING or DEAD after the step, and an agent that is DEAD is DEAD
\* after it, whether the step is a frame or a shot, and the same holds
\* across each sound event of a shot
C20_DeadIsTerminal ==
  [][/\ Len(levelEnemies') = Len(levelEnemies)
     /\ \A i \in DOMAIN levelEnemies :
          /\ levelEnemies'[i].enemyType = levelEnemies[i].enemyType
          /\ levelEnemies[i].aiState = AI.DYING
               => levelEnemies'[i].aiState \in {AI.DYING, AI.DEAD}
          /\ levelEnemies[i].aiState = AI.DEAD
               => levelEnemies'[i].aiState = AI.DEAD
          /\ probe'.op = "shoot" =>
               \A k \in DOMAIN probe'.events :
                 LET pre  == probe'.events[k].pre[i].aiState
                     post == probe'.events[k].post[i].aiState
                 IN  /\ pre = AI.DYING => post \in {AI.DYING, AI.DEAD}
                     /\ pre = AI.DEAD => post = AI.DEAD]_vars

\* A shot with its sound events has been fired past an agent that is DEAD
\* and lies within the sound's reach, and frames have run since it died
C20_Witness ==
  /\ probe.op = "shoot"
  /\ \E i \in DOMAIN levelEnemies :
       /\ levelEnemies[i].aiState = AI.DEAD
       /\ \A k \in DOMAIN probe.events : probe.events[k].pre[i].aiState = AI.DEAD


\* The cells a sound at the probe's origin floods
Flooded == alertedCells(levelWalls, levelDoors, probe.x, probe.z, probe.radius)

\* Agent e2 investigates the probe's origin point with a positive timeout
Investigates(e2) ==
  /\ e2.aiState = AI.INVESTIGATE
  /\ e2.investigateX = probe.x
  /\ e2.investigateZ = probe.z
  /\ e2.investigateTimer > 0

HopBound(radius) == radius \div CELL + (IF radius % CELL = 0 THEN 0 ELSE 1)

\* C22: the set of cells a sound event floods is exactly the origin cell
\* together with the in-grid cells reachable from it in at most
\* ceil(radius / 2) 4-connected hops through cells that are neither solid
\* walls nor door cells with openAmount < 0.3
C22_FloodIsBoundedReach ==
  probe.op = "sound" =>
    Flooded = Within({SourceCell}, QuietDoors, HopBound(probe.radius))

\* A sound of one hop has been made in a room where a closed door next to
\* the origin keeps the sound out and open cells lie beyond the hop bound
C22_Witness ==
  /\ probe.op = "sound"
  /\ probe.radius = CELL
  /\ \E k \in QuietDoors : Adjacent(k, SourceCell)
  /\ Cardinality(Flooded) > 1
  /\ Connected({SourceCell}, QuietDoors) # Flooded


\* C23: an agent in DOOR_WAIT keeps its position in every step; in a tick
\* it leaves DOOR_WAIT exactly when its awaited door is gone or fully open
\* or its wait timer, less the tick's dt, is <= 0, going to CHASE if its
\* alerted flag is set and to PATROL otherwise; an agent that is in
\* DOOR_WAIT after a step has between 0 and 1.0 s of its wait left, so that
\* no agent is in DOOR_WAIT 1.0 s after it began to wait
C23_DoorWaitEnds ==
  [][\A i \in DOMAIN levelEnemies :
       LET e   == levelEnemies[i]
           e2  == levelEnemies'[i]
           d   == getDoorAt(levelWalls, levelDoors', e.doorWaitX, e.doorWaitZ)
           due == \/ d = 0
                  \/ levelDoors'[d].open
                  \/ e.doorWaitTimer - probe'.dt <= 0
       IN  /\ e.aiState = AI.DOOR_WAIT
             => /\ e2.x = e.x /\ e2.z = e.z
                /\ probe'.op = "tick"
                     => e2.aiState = IF ~due THEN AI.DOOR_WAIT
                                     ELSE IF e.alerted THEN AI.CHASE ELSE AI.PATROL
           /\ e2.aiState = AI.DOOR_WAIT
                => e2.doorWaitTimer > 0 /\ e2.doorWaitTimer <= 1000]_vars


\* A tick has taken an agent out of DOOR_WAIT into CHASE because the door
\* it awaited has become fully open while part of its wait was left
C23_Witness ==
  /\ probe.op = "tick"
  /\ \E i \in DOMAIN levelEnemies :
       LET e == levelEnemies[i]
           d == getDoorAt(levelWalls, levelDoors, e.doorWaitX, e.doorWaitZ)
       IN  /\ e.aiState = AI.CHASE
           /\ e.doorWaitTimer > 0 /\ e.doorWaitTimer < 1000
           /\ d # 0
           /\ levelDoors[d].open
           /\ levelDoors[d].closeTimer = probe.dt


\* The player is visible to the first agent as things stand: within its
\* alertDist and in line of sight
SeesPlayer ==
  CanSee([cam |-> camera, walls |-> levelWalls], [doors |-> levelDoors],
         levelEnemies[1])

C25_ClosesLateOnEmptyDoorway ==
  [][\A d \in DOMAIN levelDoors :
       (levelDoors[d].open /\ levelDoors'[d].closing)
         => /\ levelDoors[d].closeTimer + probe'.dt > 5000
            /\ ~(Cell(camera'.x) = levelDoors[d].gridX /\ Cell(camera'.z) = levelDoors[d].gridY)
            /\ \A i \in DOMAIN levelEnemies :
                 ~(/\ Cell(levelEnemies[i].x) = levelDoors[d].gridX
                   /\ Cell(levelEnemies[i].z) = levelDoors[d].gridY)]_vars


\* Door d as the enemies of the coming tick find it: after the tick's door
\* animation
Animated(d) == DoorStep(levelDoors[d], probe'.dt, camera')

\* C26: in a tick an enemy enters DOOR_WAIT, and a door differs from what
\* the door animation left, only if an enemy of a type with canOpenDoors
\* found a normal door that was neither open nor opening, and the door is
\* then opening; an agent of a type without canOpenDoors is never in
\* DOOR_WAIT, and where no enemy can open doors the doors of a tick are
\* as the animation left them
C26_OnlyDoorOpenersTriggerDoors ==
  [][/\ \A i \in DOMAIN levelEnemies' :
          levelEnemies'[i].aiState = AI.DOOR_WAIT
            => ENEMY_TYPES[levelEnemies'[i].enemyType].canOpenDoors
     /\ probe'.op = "tick" =>
           /\ \A i \in DOMAIN levelEnemies :
                (levelEnemies[i].aiState # AI.DOOR_WAIT
                   /\ levelEnemies'[i].aiState = AI.DOOR_WAIT)
                  => LET d == getDoorAt(levelWalls, levelDoors,
                                        levelEnemies'[i].doorWaitX,
                                        levelEnemies'[i].doorWaitZ)
                     IN  /\ d # 0
                         /\ levelDoors[d].doorType = "normal"
                         /\ ~Animated(d).open /\ ~Animated(d).opening
                         /\ levelDoors'[d].opening /\ ~levelDoors'[d].closing
           /\ \A d \in DOMAIN levelDoors :
                (levelDoors'[d] # Animated(d))
                  => /\ levelDoors[d].doorType = "normal"
                     /\ ~Animated(d).open /\ ~Animated(d).opening
                     /\ levelDoors'[d] = [Animated(d) EXCEPT !.opening = TRUE,
                                                             !.closing = FALSE]
                     /\ \E i \in DOMAIN levelEnemies :
                          /\ ENEMY_TYPES[levelEnemies[i].enemyType].canOpenDoors
                          /\ levelEnemies[i].alive]_vars

\* A guard has just triggered a normal door and waits for it
C26_Witness ==
  /\ probe.op = "tick"
  /\ \E i \in DOMAIN levelEnemies : \E d \in DOMAIN levelDoors :
       /\ levelEnemies[i].aiState = AI.DOOR_WAIT
       /\ levelEnemies[i].doorWaitTimer = 1000
       /\ levelEnemies[i].doorWaitX = levelDoors[d].gridX
       /\ levelEnemies[i].doorWaitZ = levelDoors[d].gridY
       /\ levelDoors[d].doorType = "normal"
       /\ levelDoors[d].opening
       /\ levelDoors[d].openAmount = 0


\* C27: an agent of a silent type is never in ALERT; in a tick in which a
\* living agent in STAND or PATROL sees the player, a silent agent ends in
\* CHASE with lastSeenX/lastSeenZ at the player's position, and an agent of
\* any other type ends in ALERT
C27_SilentSkipsAlert ==
  [][\A i \in DOMAIN levelEnemies :
       LET e == levelEnemies[i]
           e2 == levelEnemies'[i]
           silent == ENEMY_TYPES[e.enemyType].silent
       IN  /\ silent => e2.aiState # AI.ALERT
           /\ (/\ probe'.op = "tick"
               /\ e.alive
               /\ e.aiState \in {AI.STAND, AI.PATROL}
               /\ SeenInTick(e))
                => IF silent
                   THEN /\ e2.aiState = AI.CHASE
                        /\ e2.lastSeenX = camera'.x
                        /\ e2.lastSeenZ = camera'.z
                   ELSE e2.aiState = AI.ALERT]_vars

\* A mutant that was on patrol has seen the player and is in CHASE without
\* ever having been alert
C27_Witness ==
  /\ probe.op = "tick"
  /\ \E i \in DOMAIN levelEnemies :
       /\ levelEnemies[i].enemyType = "mutant"
       /\ levelEnemies[i].aiState = AI.CHASE
       /\ levelEnemies[i].patrolTimer > 3500
       /\ levelEnemies[i].alertTimer = 0
       /\ levelEnemies[i].lastSeenX = camera.x
       /\ levelEnemies[i].lastSeenZ = camera.z


\* C28: an agent of a noPain type is never in PAIN whatever damage it takes;
\* an agent of any other type that survives a hit is in PAIN right after the
\* shot, and an agent in PAIN goes to CHASE in the tick in which its pain
\* timer runs out
C28_OnlyBossShrugsOffPain ==
  [][\A i \in DOMAIN levelEnemies :
       LET e == levelEnemies[i]
           e2 == levelEnemies'[i]
           noPain == ENEMY_TYPES[e.enemyType].noPain
       IN  /\ noPain => e2.aiState # AI.PAIN
           /\ (/\ probe'.op = "shoot"
               /\ probe'.hit = i
               /\ e2.alive
               /\ ~noPain)
                => e2.aiState = AI.PAIN /\ e2.painTimer > 0
           /\ (/\ probe'.op = "tick"
               /\ e.aiState = AI.PAIN
               /\ e.painTimer - probe'.dt <= 0)
                => e2.aiState = AI.CHASE]_vars

\* The boss has just been hit, has lost health and is not in PAIN
C28_Witness ==
  /\ probe.op = "shoot"
  /\ probe.hit # 0
  /\ levelEnemies[probe.hit].enemyType = "boss"
  /\ levelEnemies[probe.hit].alive
  /\ levelEnemies[probe.hit].health < ENEMY_TYPES["boss"].hp
  /\ levelEnemies[probe.hit].aiState # AI.PAIN


\* The enemies that have died, and the score their deaths are worth
Fallen == {i \in DOMAIN levelEnemies : ~levelEnemies[i].alive}

RECURSIVE Bounty(_)
Bounty(K) ==
  IF K = {} THEN 0
  ELSE LET i == CHOOSE k \in K : TRUE
       IN  ENEMY_TYPES[levelEnemies[i].enemyType].score + Bounty(K \ {i})

\* C29: every enemy that has died and is not a dog has left one ammo pickup
\* where it died, a dog has left none, and the score of each dead enemy has
\* been added once: the number of ammo pickups dropped equals the number of
\* enemies of another type than dog with alive = false, and the score is
\* the sum of the scores of the dead (the level holds no pickups of its own)
C29_OneClipPerKill ==
  /\ Cardinality({j \in DOMAIN levelPickups : levelPickups[j].pickupType = "ammo"})
       = Cardinality({i \in Fallen : levelEnemies[i].enemyType # "dog"})
  /\ \A i \in Fallen :
       levelEnemies[i].enemyType # "dog"
         => \E j \in DOMAIN levelPickups :
              /\ levelPickups[j].pickupType = "ammo"
              /\ levelPickups[j].x = levelEnemies[i].x
              /\ levelPickups[j].z = levelEnemies[i].z
  /\ state.score = Bounty(Fallen)

\* The dog and the guard behind it are both dead: one clip, the score of both
C29_Witness ==
  /\ Fallen = DOMAIN levelEnemies
  /\ \E i \in Fallen : levelEnemies[i].enemyType = "dog"
  /\ Len(levelPickups) = 1
  /\ state.score = ENEMY_TYPES["dog"].score + ENEMY_TYPES["guard"].score


\* C30: on a multi-story level isBlockedMultiStory answers true for every
\* point of a cell that holds an upper-story wall when the entity is on the
\* second story (floor height >= 1.7)
C30_UpperWallBlocksUpstairs ==
  (/\ probe.op = "isBlocked"
   /\ probe.multi
   /\ probe.story.upperWall > 0
   /\ isOnSecondFloor(probe.story.floorY))
    => probe.result

\* C30, second half: for an entity on the ground floor the answer for a cell
\* with an upper-story wall is the answer for the same cell without it
C30_UpperWallSparesGround ==
  (/\ probe.op = "isBlocked"
   /\ probe.multi
   /\ ~isOnSecondFloor(probe.story.floorY))
    => probe.result = isBlockedMultiStory(levelWalls, levelDoors, levelStatics,
                                          probe.wx, probe.wz,
                                          [probe.story EXCEPT !.upperWall = 0])


C32_AttackOnlyWhenReady ==
  [][\A i \in DOMAIN levelEnemies :
       LET e == levelEnemies[i]
           e2 == levelEnemies'[i]
           td == ENEMY_TYPES[e.enemyType]
       IN  (e.aiState # AI.ATTACK /\ e2.aiState = AI.ATTACK)
             => /\ e.aiState \in {AI.CHASE, AI.DODGE}
                /\ probe'.op = "tick"
                /\ SeenInTick(e)
                /\ Dist(camera'.x - e.x, camera'.z - e.z) < td.shootDist
                /\ e.shootCooldown - probe'.dt <= 0
                /\ e2.shootCooldown >= td.cooldown[1]
                /\ e2.shootCooldown <= td.cooldown[2]
                /\ e2.attackPhase = "aim"]_vars

\* An officer has gone from DODGE into ATTACK
C32_Witness ==
  /\ probe.op = "tick"
  /\ \E i \in DOMAIN levelEnemies :
       /\ levelEnemies[i].aiState = AI.ATTACK
       /\ levelEnemies[i].attackPhase = "aim"
       /\ levelEnemies[i].dodgeTimer > 0
       /\ levelEnemies[i].shootCooldown >= ENEMY_TYPES[levelEnemies[i].enemyType].cooldown[1]


\* The states an agent is in only after it has noticed the player or a sound
Roused == {AI.ALERT, AI.CHASE, AI.ATTACK, AI.DODGE, AI.PAIN, AI.INVESTIGATE,
           AI.DOOR_WAIT}

\* C33: after every step an agent whose aiState is ALERT, CHASE, ATTACK,
\* DODGE, PAIN, INVESTIGATE or DOOR_WAIT has alerted = true; no step of a
\* level sets alerted back to false; and no step takes an agent from
\* DOOR_WAIT to PATROL
C33_RousedMeansAlerted ==
  [][\A i \in DOMAIN levelEnemies :
       LET e == levelEnemies[i]
           e2 == levelEnemies'[i]
       IN  /\ e2.aiState \in Roused => e2.alerted
           /\ e.alerted => e2.alerted
           /\ ~(e.aiState = AI.DOOR_WAIT /\ e2.aiState = AI.PATROL)]_vars

\* An agent roused by a sound alone, not yet past its investigation time,
\* waits at the door with alerted = true
C33_Witness ==
  \E i \in DOMAIN levelEnemies :
    /\ levelEnemies[i].aiState = AI.DOOR_WAIT
    /\ levelEnemies[i].alerted
    /\ levelEnemies[i].investigateTimer > 0
    /\ levelEnemies[i].alertTimer = 0


\* C34: in every reachable state a door with neither its opening nor its
\* closing flag set is closed (openAmount 0, open false) or fully open
\* (openAmount 1, open true), and a door with its open flag set has
\* openAmount 1 and is not opening
C34_NoDoorRestsMidTravel ==
  \A i \in DOMAIN levelDoors :
    LET d == levelDoors[i]
    IN  /\ (~d.opening /\ ~d.closing)
          => \/ d.openAmount = 0 /\ ~d.open
             \/ d.openAmount = 1000 /\ d.open
        /\ d.open => (d.openAmount = 1000 /\ ~d.opening)

\* A door has travelled to its end and has stood fully open for a while
C34_Witness ==
  \E i \in DOMAIN levelDoors :
    /\ levelDoors[i].open
    /\ ~levelDoors[i].opening
    /\ ~levelDoors[i].closing
    /\ levelDoors[i].openAmount = 1000
    /\ levelDoors[i].closeTimer > 1000


\* C35: every tick brings a door whose opening flag is set nearer to open
\* (a larger openAmount, or open = true with openAmount 1), and no step
\* takes the opening flag from a door that is opening but the one that sets
\* open; a tick that finds a fully open door open for more than 5 s with the
\* player outside its cell starts its closing, and every tick lowers the
\* openAmount of a closing door until it is 0 or the door is re-opened
C35_DoorsFinishTheirTravel ==
  [][\A i \in DOMAIN levelDoors :
       LET d == levelDoors[i]
           d2 == levelDoors'[i]
       IN  /\ (probe'.op = "tick" /\ d.opening)
             => \/ d2.open /\ d2.openAmount = 1000
                \/ d2.opening /\ d2.openAmount > d.openAmount
           /\ (d.opening /\ ~d.closing) => (d2.opening \/ d2.open)
           /\ (/\ probe'.op = "tick"
               /\ d.open
               /\ d.closeTimer + probe'.dt > 5000
               /\ ~(Cell(camera'.x) = d.gridX /\ Cell(camera'.z) = d.gridY))
                => d2.closing
           /\ (probe'.op = "tick" /\ d.closing /\ d.openAmount > 0)
                => d2.openAmount < d.openAmount]_vars


\* C36: after every step an agent in ATTACK is in the phase 'aim', with at
\* most 0.24 s on its attack timer, or in the phase 'fire', with at most
\* 0.2 s; a tick that finds it in ATTACK and leaves it there has moved it
\* from 'aim' to 'fire' or has taken dt from the timer of its phase, and a
\* tick that finds it in 'fire' with no more than dt left takes it out of
\* ATTACK: it stays in ATTACK for a bounded number of ticks
C36_AttackAlwaysEnds ==
  [][\A i \in DOMAIN levelEnemies :
       LET e == levelEnemies[i]
           e2 == levelEnemies'[i]
       IN  /\ e2.aiState = AI.ATTACK
             => \/ e2.attackPhase = "aim" /\ e2.attackTimer \in 1..240
                \/ e2.attackPhase = "fire" /\ e2.attackTimer \in 1..200
           /\ (probe'.op = "tick" /\ e.aiState = AI.ATTACK /\ e2.aiState = AI.ATTACK)
                => \/ e.attackPhase = "aim" /\ e2.attackPhase = "fire"
                   \/ /\ e2.attackPhase = e.attackPhase
                      /\ e2.attackTimer = e.attackTimer - probe'.dt
           /\ (/\ probe'.op = "tick"
               /\ e.aiState = AI.ATTACK
               /\ e.attackPhase = "fire"
               /\ e.attackTimer - probe'.dt <= 0)
                => e2.aiState \in {AI.CHASE, AI.DODGE}]_vars

\* An agent has left ATTACK after its fire phase and is back in CHASE or DODGE
C36_Witness ==
  /\ probe.op = "tick"
  /\ \E i \in DOMAIN levelEnemies :
       /\ levelEnemies[i].aiState \in {AI.CHASE, AI.DODGE}
       /\ levelEnemies[i].attackPhase = "none"
       /\ levelEnemies[i].fires > 0
       /\ levelEnemies[i].attackTimer = 0


\* C37: on a single-story level, in every reachable state every enemy
\* stands in a cell of the grid that is not a solid wall (wall code > 0)
C37_NoEnemyInsideWall ==
  \A i \in DOMAIN levelEnemies :
    /\ InGrid(Cell(levelEnemies[i].x), Cell(levelEnemies[i].z))
    /\ WallAt(levelWalls, Cell(levelEnemies[i].x), Cell(levelEnemies[i].z)) <= 0

\* An officer has sidestepped to within one step of the corridor's wall
C37_Witness ==
  \E i \in DOMAIN levelEnemies :
    /\ levelEnemies[i].enemyType = "officer"
    /\ levelEnemies[i].alive
    /\ \/ levelEnemies[i].z % CELL > CELL - 200
       \/ levelEnemies[i].z % CELL < 200


\* C38: a loadLevel call with an index that has no level data leaves the
\* loaded level as it was: the wall grid, the doors, the enemies, the
\* statics and the pickups are the same after the call as before it
C38_FailedLoadKeepsLevel ==
  [][(probe'.op = "loadLevel" /\ ~probe'.found)
       => UNCHANGED <<levelWalls, levelDoors, levelEnemies, levelStatics,
                      levelPickups>>]_vars



\* C39: whenever findPath computes a path (it searches and the search pops
\* the goal within its budget), the path is a chain of 4-adjacent cells
\* without a solid wall that starts at a neighbour of the start cell and ends
\* at the goal cell; its cost, 1 per cell and 3 per cell of a door whose open
\* flag is not set, is the gScore the goal was popped with and is the least
\* cost of all such chains from the start cell to the goal cell; and this
\* path is what the cache then holds for the two cells
C39_ComputedPathIsMinimalChain ==
  (probe.op = "findPath" /\ probe.searched /\ probe.path # << >>) =>
    LET s == probe.sx * MAP_SIZE + probe.sz
        g == probe.gx * MAP_SIZE + probe.gz
        cells == [n \in DOMAIN probe.path |->
                    probe.path[n].x * MAP_SIZE + probe.path[n].z]
    IN  /\ Adjacent(s, cells[1])
        /\ cells[Len(cells)] = g
        /\ \A n \in DOMAIN cells : cells[n] \in LevelCells /\ NoWall(cells[n])
        /\ \A n \in 1..(Len(cells) - 1) : Adjacent(cells[n], cells[n + 1])
        /\ probe.cost = PathCost(probe.path)
        /\ MinCost(s, g) = probe.cost
        /\ \E key \in DOMAIN pathCache : pathCache[key] = probe.path

\* findPath has computed a path that leaves the direct way although no closed
\* door lies on it: it goes round a wall or round a closed door
C39_Witness ==
  /\ probe.op = "findPath"
  /\ probe.searched
  /\ probe.path # << >>
  /\ ClosedDoorsOn(probe.path) = 0
  /\ Len(probe.path) > Manhattan
  /\ \E d \in DOMAIN levelDoors : ~levelDoors[d].open



\* C40: while gameOver is true the player's health is 0, and until
\* startNewGame or restartLevel loads the level again every step (a frame,
\* a fire input, a door key, a turn of the mouse) leaves the simulation as
\* it is: the game stays over, and no enemy, door, pickup, the player's
\* position, health, ammo, score and cooldown, the path cache and its frame
\* counter change
C40_GameOverFreezesSimulation ==
  [][gameOver =>
       /\ state.health = 0
       /\ \/ probe'.op = "load"
          \/ /\ gameOver'
             /\ levelEnemies' = levelEnemies
             /\ levelDoors' = levelDoors
             /\ levelPickups' = levelPickups
             /\ camera' = camera
             /\ state' = state
             /\ pathCache' = pathCache
             /\ pathCacheFrame' = pathCacheFrame]_vars

\* A frame has run after the player's death: the guard that fired the last
\* shot is held in the fire phase it entered in that tick, and the door
\* stands open with its close timer stopped short of 5 s
C40_Witness ==
  /\ gameOver
  /\ probe.op = "render"
  /\ state.health = 0
  /\ \E i \in DOMAIN levelEnemies :
       /\ levelEnemies[i].aiState = AI.ATTACK
       /\ levelEnemies[i].attackPhase = "fire"
       /\ levelEnemies[i].attackTimer = 200
  /\ \E d \in DOMAIN levelDoors :
       /\ levelDoors[d].open
       /\ levelDoors[d].closeTimer > 0
       /\ levelDoors[d].closeTimer < 5000

=============================================================================
